---------------------------- MODULE Spec2Model ----------------------------
(***************************************************************************)
(* A model of frontend/script.js of news-assistant: the query parser, the  *)
(* domain expander, the relevance scorer, the selection reconciler, the    *)
(* video candidate filter and the handlers that drive them.                *)
(*                                                                         *)
(* JavaScript strings are modelled as sequences of one-character strings,  *)
(* so that lowercasing, trimming, splitting, substring tests and suffix    *)
(* rewriting are computed character by character as the code does.         *)
(***************************************************************************)
EXTENDS Integers, Sequences, FiniteSets, TLC

\* ------------------------------------------------------------------------
\* Characters and the String.prototype methods the code uses
\* ------------------------------------------------------------------------

LowerAlpha ==
  <<"a","b","c","d","e","f","g","h","i","j","k","l","m",
    "n","o","p","q","r","s","t","u","v","w","x","y","z">>

UpperAlpha ==
  <<"A","B","C","D","E","F","G","H","I","J","K","L","M",
    "N","O","P","Q","R","S","T","U","V","W","X","Y","Z">>

DigitChars == {"0","1","2","3","4","5","6","7","8","9"}

LowerSet == {LowerAlpha[i] : i \in 1..26}

\* the lowercase letter of each uppercase letter
LowerOf == [c \in {UpperAlpha[i] : i \in 1..26} |-> LowerAlpha[CHOOSE i \in 1..26 : UpperAlpha[i] = c]]

\* String.prototype.toLowerCase
toLowerCase(s) ==
  [i \in 1..Len(s) |-> IF s[i] \in DOMAIN LowerOf THEN LowerOf[s[i]] ELSE s[i]]

\* \s of the regular expressions (the inputs hold no white space but the space)
IsWs(c) == c = " "

\* \w of the regular expressions.
IsWordChar(c) == c \in LowerSet \/ c \in DOMAIN LowerOf \/ c \in DigitChars \/ c = "_"

startsWith(s, p) == Len(p) <= Len(s) /\ \A i \in 1..Len(p) : s[i] = p[i]

endsWith(s, p) ==
  /\ Len(p) <= Len(s)
  /\ \A i \in 1..Len(p) : s[Len(s) - Len(p) + i] = p[i]

\* s.slice(0, -n)
sliceOff(s, n) == SubSeq(s, 1, Len(s) - n)

\* String.prototype.includes
includes(hay, nd) ==
  \E i \in 0..(Len(hay) - Len(nd)) : \A j \in 1..Len(nd) : hay[i + j] = nd[j]

RECURSIVE TrimLeft(_)
TrimLeft(s) ==
  IF Len(s) > 0 /\ IsWs(s[1]) THEN TrimLeft(Tail(s)) ELSE s

RECURSIVE TrimRight(_)
TrimRight(s) ==
  IF Len(s) > 0 /\ IsWs(s[Len(s)]) THEN TrimRight(sliceOff(s, 1)) ELSE s

\* String.prototype.trim
trim(s) == TrimRight(TrimLeft(s))

\* s.replace(/\s+/g, ' ')
RECURSIVE CollapseFrom(_, _)
CollapseFrom(s, i) ==
  IF i > Len(s) THEN <<>>
  ELSE IF IsWs(s[i])
    THEN IF i > 1 /\ IsWs(s[i - 1])
           THEN CollapseFrom(s, i + 1)
           ELSE <<" ">> \o CollapseFrom(s, i + 1)
    ELSE <<s[i]>> \o CollapseFrom(s, i + 1)

\* s.split(' '): the segments between single spaces, empty ones included
RECURSIVE SplitFrom(_, _, _)
SplitFrom(s, i, cur) ==
  IF i > Len(s) THEN <<cur>>
  ELSE IF s[i] = " "
    THEN <<cur>> \o SplitFrom(s, i + 1, <<>>)
    ELSE SplitFrom(s, i + 1, Append(cur, s[i]))

split(s) == SplitFrom(s, 1, <<>>)

\* a \b-position of text: between character k and character k + 1
WordBoundary(text, k) ==
  LET before == k >= 1 /\ k <= Len(text) /\ IsWordChar(text[k])
      after  == k + 1 >= 1 /\ k + 1 <= Len(text) /\ IsWordChar(text[k + 1])
  IN  before # after

\* /\bT\b/i.test(text), T a literal (escapeRegExp makes it one)
reWordTest(t, text) ==
  LET tl == toLowerCase(t)
      xl == toLowerCase(text)
      n  == Len(t)
  IN  \E i \in 0..(Len(text) - n) :
        /\ \A j \in 1..n : xl[i + j] = tl[j]
        /\ WordBoundary(text, i)
        /\ WordBoundary(text, i + n)

\* /A\s+B/.test(text): A, one or more spaces, B
reGapTest(a, b, text) ==
  \E i \in 0..(Len(text) - Len(a)) :
    /\ SubSeq(text, i + 1, i + Len(a)) = a
    /\ \E g \in 1..(Len(text) - i - Len(a)) :
         /\ \A k \in 1..g : IsWs(text[i + Len(a) + k])
         /\ startsWith(SubSeq(text, i + Len(a) + g + 1, Len(text)), b)

\* the sequence without repeated elements, first occurrences kept (a JS Set)
RECURSIVE Dedup(_)
Dedup(s) ==
  IF s = <<>> THEN <<>>
  ELSE LET r == Dedup(sliceOff(s, 1))
       IN  IF \E i \in 1..Len(r) : r[i] = s[Len(s)] THEN r
           ELSE Append(r, s[Len(s)])

Range(s) == {s[i] : i \in 1..Len(s)}

RECURSIVE Flatten(_)
Flatten(ss) == IF ss = <<>> THEN <<>> ELSE Head(ss) \o Flatten(Tail(ss))

\* ------------------------------------------------------------------------
\* Text normalisation, tokens and the light stemmer
\* ------------------------------------------------------------------------

STOPWORDS ==
  { <<"t","h","e">>,
    <<"a">>,
    <<"a","n">>,
    <<"o","f">>,
    <<"f","o","r">>,
    <<"a","n","d">>,
    <<"t","o">>,
    <<"i","n">>,
    <<"o","n">>,
    <<"a","t">>,
    <<"w","i","t","h">>,
    <<"f","r","o","m">>,
    <<"b","y">>,
    <<"a","b","o","u","t">>,
    <<"a","s">>,
    <<"i","s">>,
    <<"a","r","e">>,
    <<"w","a","s">>,
    <<"w","e","r","e">>,
    <<"b","e">>,
    <<"b","e","e","n">>,
    <<"i","t">>,
    <<"t","h","i","s">>,
    <<"t","h","a","t">>,
    <<"t","h","e","s","e">>,
    <<"t","h","o","s","e">>,
    <<"y","o","u">>,
    <<"y","o","u","r">> }

\* the ordered suffix table of simpleStem: <<suffix, replacement>>
StemRules ==
  << <<<<"i","c","a","l","l","y">>, <<"i","c">>>>,
     <<<<"a","l","l","y">>, <<"a","l">>>>,
     <<<<"i","n","g","l","y">>, <<"i","n","g">>>>,
     <<<<"i","n","e","s","s">>, <<"y">>>>,
     <<<<"f","u","l","n","e","s","s">>, <<"f","u","l">>>>,
     <<<<"a","t","i","o","n","s">>, <<"a","t","i","o","n">>>>,
     <<<<"t","i","o","n","a","l">>, <<"t","i","o","n">>>>,
     <<<<"a","t","i","o","n","a","l">>, <<"a","t","i","o","n">>>>,
     <<<<"i","v","e","l","y">>, <<"i","v","e">>>>,
     <<<<"o","u","s","l","y">>, <<"o","u","s">>>>,
     <<<<"l","e","s","s","n","e","s","s">>, <<"l","e","s","s">>>>,
     <<<<"m","e","n","t","s">>, <<"m","e","n","t">>>>,
     <<<<"m","e","n","t">>, <<"m","e","n","t">>>>,
     <<<<"n","e","s","s">>, <<>>>>,
     <<<<"l","e","s","s">>, <<"l","e","s","s">>>>,
     <<<<"s","h","i","p","s">>, <<"s","h","i","p">>>>,
     <<<<"s","h","i","p">>, <<"s","h","i","p">>>>,
     <<<<"i","n","g","s">>, <<"i","n","g">>>>,
     <<<<"i","n","g">>, <<>>>>,
     <<<<"i","z","e","d">>, <<"i","z","e">>>>,
     <<<<"i","z","e","s">>, <<"i","z","e">>>>,
     <<<<"i","z","e","r">>, <<"i","z","e">>>>,
     <<<<"e","d","l","y">>, <<"e","d">>>>,
     <<<<"e","d","l","y">>, <<"e","d">>>>,
     <<<<"e","d">>, <<>>>>,
     <<<<"e","r","s">>, <<"e","r">>>>,
     <<<<"e","r">>, <<>>>>,
     <<<<"i","e","s">>, <<"y">>>>,
     <<<<"i","c","s">>, <<"i","c">>>>,
     <<<<"i","c","a","l">>, <<"i","c">>>>,
     <<<<"i","a","l","s">>, <<"i","a","l">>>>,
     <<<<"i","a","l">>, <<"i","a","l">>>>,
     <<<<"a","l","s">>, <<"a","l">>>>,
     <<<<"a","l">>, <<"a","l">>>>,
     <<<<"s">>, <<>>>> >>

\* s.replace(/[^a-z0-9\s]/g, ' ')
ReplaceNonAlnum(s) ==
  [i \in 1..Len(s) |->
     IF s[i] \in LowerSet \/ s[i] \in DigitChars \/ IsWs(s[i]) THEN s[i] ELSE " "]

normalizeText(s) == trim(CollapseFrom(ReplaceNonAlnum(toLowerCase(s)), 1))

\* the filter of tokensFromTitle, tokensFromText and parseQueryParts
IsInformative(t) == Len(t) >= 3 /\ t \notin STOPWORDS

tokensFromTitle(title) == SelectSeq(split(normalizeText(title)), IsInformative)

tokensFromText(text) == SelectSeq(split(normalizeText(text)), IsInformative)

RECURSIVE StemFromAnyLength(_, _)
StemFromAnyLength(s, i) ==
  IF i > Len(StemRules) THEN s
  ELSE IF endsWith(s, StemRules[i][1])
    THEN sliceOff(s, Len(StemRules[i][1])) \o StemRules[i][2]
    ELSE StemFromAnyLength(s, i + 1)

\* the rule loop of simpleStem from rule i on: the first applicable rule is
\* applied and the loop is left
RECURSIVE StemFrom(_, _)
StemFrom(s, i) ==
  IF i > Len(StemRules) THEN s
  ELSE IF endsWith(s, StemRules[i][1]) /\ Len(s) - Len(StemRules[i][1]) >= 3
    THEN sliceOff(s, Len(StemRules[i][1])) \o StemRules[i][2]
    ELSE StemFrom(s, i + 1)

simpleStem(w) == StemFrom(toLowerCase(w), 1)

StemMatchEqual(st, q) == st = q

\* one iteration of the loop of tokensContainStem
StemMatch(st, q) ==
  \/ st = q
  \/ startsWith(st, q) /\ Len(st) - Len(q) <= 3
  \/ startsWith(q, st) /\ Len(q) - Len(st) <= 2

StemIn(tokens, q) == \E i \in 1..Len(tokens) : StemMatch(simpleStem(tokens[i]), q)

tokensContainStem(tokens, queryToken) == StemIn(tokens, simpleStem(queryToken))

\* ------------------------------------------------------------------------
\* The state of the page
\* ------------------------------------------------------------------------

VARIABLES
  headlines,    \* let headlines: the fetched list, <<[title, summary, link], ...>>
  domainTerms,  \* let domainTerms: [present, hasPolitics, politics]
  videos,       \* let videos: the candidates of the last scan
  checked,      \* the indices (from 0) whose #headlines checkbox is checked
  feedGroup,    \* #feedGroup value
  queryInput,   \* #query value
  expandAI,     \* #expandAI checked
  vidControls,  \* the video filter controls: [type, playableOnly, uniquePerPage,
                \*   fromSelectedOnly, search]
  status,       \* #status text, as a tag
  sumCall,      \* the btnSummarize handlers suspended at their await
  fetchCall,    \* the btnFetch handlers suspended at their await
  scanCall,     \* the btnScanVideos handlers suspended at their await
  timers,       \* the ids of the timeouts the browser holds, not yet run
  vidSearchTimer, \* let _vidSearchTimer: the id of the last timeout set, 0 for null
  ret           \* the last call made and what it returned

vars ==
  <<headlines, domainTerms, videos, checked, feedGroup, queryInput, expandAI,
    vidControls, status, sumCall, fetchCall, scanCall, timers, vidSearchTimer,
    ret>>

\* ------------------------------------------------------------------------
\* Query parsing
\* ------------------------------------------------------------------------

\* the matches of /"([^"]+)"/g in q from position i on, as <<open, close>>
RECURSIVE QuoteMatches(_, _)
QuoteMatches(q, i) ==
  IF i > Len(q) THEN <<>>
  ELSE IF /\ q[i] = "\""
          /\ i + 1 <= Len(q)
          /\ q[i + 1] # "\""
          /\ \E r \in (i + 2)..Len(q) : q[r] = "\""
    THEN LET r == CHOOSE r \in (i + 2)..Len(q) :
                    q[r] = "\"" /\ \A k \in (i + 1)..(r - 1) : q[k] # "\""
         IN  <<<<i, r>>>> \o QuoteMatches(q, r + 1)
    ELSE QuoteMatches(q, i + 1)

\* q.replace(re, ' '): every match replaced by one space
RECURSIVE ReplaceMatches(_, _, _)
ReplaceMatches(q, ms, i) ==
  IF ms = <<>> THEN SubSeq(q, i, Len(q))
  ELSE SubSeq(q, i, ms[1][1] - 1) \o <<" ">> \o ReplaceMatches(q, Tail(ms), ms[1][2] + 1)

parseQueryParts(q) ==
  IF q = <<>> THEN [phrases |-> <<>>, tokens |-> <<>>]
  ELSE LET ms   == QuoteMatches(q, 1)
           phs  == [k \in 1..Len(ms) |-> trim(SubSeq(q, ms[k][1] + 1, ms[k][2] - 1))]
           rest == ReplaceMatches(q, ms, 1)
           rough == SelectSeq(split(normalizeText(rest)), LAMBDA t : t # <<>>)
       IN  [phrases |-> SelectSeq(phs, LAMBDA ph : ph # <<>>),
            tokens  |-> SelectSeq(rough, IsInformative)]

\* ------------------------------------------------------------------------
\* Domain expansion
\* ------------------------------------------------------------------------

\* a trigger that takes every query for a politics query
shouldUsePoliticsDomainAlways(query) == TRUE

shouldUsePoliticsDomain(query) ==
  LET q == toLowerCase(query)
  IN  \/ includes(q, <<"p","o","l","i","t","i","c">>)
      \/ includes(q, <<"p","a","r","l","i","a","m","e","n","t">>)
      \/ includes(q, <<"c","o","n","g","r","e","s","s">>)
      \/ includes(q, <<"s","e","n","a","t","e">>)
      \/ includes(q, <<"e","l","e","c","t","i","o","n">>)
      \/ includes(q, <<"g","o","v","e","r","n","m","e","n","t">>)
      \/ includes(q, <<"w","h","i","t","e","h","a","l","l">>)
      \/ reGapTest(<<"d","o","w","n","i","n","g">>, <<"s","t","r","e","e","t">>, q)

\* /(^|[_\-\s])W/.test(g)
GroupPrefixTest(w, g) ==
  \E i \in 0..(Len(g) - Len(w)) :
    /\ SubSeq(g, i + 1, i + Len(w)) = w
    /\ (i = 0 \/ g[i] \in {"_", "-", " "})

\* the region of the selected feed group: <<>> for null, else <<region>>
inferRegionFromGroup ==
  LET g == toLowerCase(feedGroup)
  IN  IF g = <<>> THEN <<>>
      ELSE IF \E w \in {<<"u","k">>, <<"b","r","i","t">>, <<"e","n","g">>, <<"w","a","l","e","s">>, <<"s","c","o","t">>} : GroupPrefixTest(w, g)
        THEN <<"uk">>
      ELSE IF \E w \in {<<"u","s">>, <<"u","s","a">>, <<"a","m","e","r","i","c","a">>, <<"s","t","a","t","e","s">>} : GroupPrefixTest(w, g)
        THEN <<"usa">>
      ELSE IF \E w \in {<<"e","u">>, <<"e","u","r","o","p","e">>, <<"e","u","r","o","p","e","a","n">>} : GroupPrefixTest(w, g)
        THEN <<"eu">>
      ELSE <<>>

\* the Set of regions named in the query, in insertion order
detectRegionsFromQuery(query) ==
  LET q  == toLowerCase(query)
      uk == \/ reWordTest(<<"u","k">>, q)
            \/ reGapTest(<<"u","n","i","t","e","d">>, <<"k","i","n","g","d","o","m">>, q)
            \/ includes(q, <<"b","r","i","t","i","s","h">>)
            \/ includes(q, <<"e","n","g","l","a","n","d">>)
            \/ includes(q, <<"s","c","o","t","l","a","n","d">>)
            \/ includes(q, <<"w","a","l","e","s">>)
            \/ reGapTest(<<"n","o","r","t","h","e","r","n">>, <<"i","r","e","l","a","n","d">>, q)
      us == \/ reWordTest(<<"u","s","a">>, q)
            \/ reWordTest(<<"u","s">>, q)
            \/ reGapTest(<<"u","n","i","t","e","d">>, <<"s","t","a","t","e","s">>, q)
            \/ includes(q, <<"a","m","e","r","i","c","a">>)
            \/ includes(q, <<"a","m","e","r","i","c","a","n">>)
      eu == \/ reWordTest(<<"e","u">>, q)
            \/ includes(q, <<"e","u","r","o","p","e">>)
            \/ includes(q, <<"e","u","r","o","p","e","a","n">>)
            \/ reGapTest(<<"e","u","r","o","p","e","a","n">>, <<"u","n","i","o","n">>, q)
  IN  (IF uk THEN <<"uk">> ELSE <<>>)
        \o (IF us THEN <<"usa">> ELSE <<>>)
        \o (IF eu THEN <<"eu">> ELSE <<>>)

detectRegionsFromContext(query) ==
  LET regions == detectRegionsFromQuery(query)
  IN  IF Len(regions) = 0 THEN inferRegionFromGroup ELSE regions

defaultRegionAnchors(region) ==
  CASE region = "uk" ->
         << <<"u","k">>,
           <<"b","r","i","t","i","s","h">>,
           <<"e","n","g","l","a","n","d">>,
           <<"s","c","o","t","l","a","n","d">>,
           <<"w","a","l","e","s">>,
           <<"n","o","r","t","h","e","r","n"," ","i","r","e","l","a","n","d">>,
           <<"w","e","s","t","m","i","n","s","t","e","r">>,
           <<"d","o","w","n","i","n","g"," ","s","t","r","e","e","t">>,
           <<"w","h","i","t","e","h","a","l","l">>,
           <<"h","o","u","s","e"," ","o","f"," ","c","o","m","m","o","n","s">>,
           <<"h","o","u","s","e"," ","o","f"," ","l","o","r","d","s">>,
           <<"n","o"," ","1","0">>,
           <<"n","u","m","b","e","r"," ","1","0">> >>
    [] region = "usa" ->
         << <<"u","s","a">>,
           <<"u","s">>,
           <<"a","m","e","r","i","c","a","n">>,
           <<"w","a","s","h","i","n","g","t","o","n">>,
           <<"w","h","i","t","e"," ","h","o","u","s","e">>,
           <<"c","a","p","i","t","o","l"," ","h","i","l","l">>,
           <<"s","e","n","a","t","e">>,
           <<"c","o","n","g","r","e","s","s">> >>
    [] region = "eu" ->
         << <<"e","u">>,
           <<"e","u","r","o","p","e">>,
           <<"e","u","r","o","p","e","a","n">>,
           <<"b","r","u","s","s","e","l","s">>,
           <<"s","t","r","a","s","b","o","u","r","g">>,
           <<"c","o","m","m","i","s","s","i","o","n">> >>
    [] OTHER -> <<>>

\* Object.keys(obj) of a region map, kept as <<<<region, names>>, ...>>
Keys(obj) == [i \in 1..Len(obj) |-> obj[i][1]]

\* obj[r] when it is an array, else nothing
Lookup(obj, r) ==
  IF \E i \in 1..Len(obj) : obj[i][1] = r
    THEN obj[CHOOSE i \in 1..Len(obj) : obj[i][1] = r][2]
    ELSE <<>>

\* addTerm of expandQueryWithDomain, on out = [phrases, tokens, ...]
addTerm(out, t) ==
  LET s   == trim(t)
      low == toLowerCase(s)
  IN  IF s = <<>> THEN out
      ELSE IF includes(s, <<" ">>)
        THEN IF \E i \in 1..Len(out.phrases) : toLowerCase(out.phrases[i]) = low
               THEN out
               ELSE [out EXCEPT !.phrases = Append(@, s)]
        ELSE IF /\ ~ \E i \in 1..Len(out.tokens) : toLowerCase(out.tokens[i]) = low
                /\ low \notin STOPWORDS
                /\ Len(low) >= 2
               THEN [out EXCEPT !.tokens = Append(@, s)]
               ELSE out

\* list.forEach(addTerm)
RECURSIVE addTerms(_, _)
addTerms(out, list) ==
  IF list = <<>> THEN out ELSE addTerms(addTerm(out, Head(list)), Tail(list))

\* the names obj holds for the regions rs, region by region
collectFromRegions(obj, rs) == Flatten([i \in 1..Len(rs) |-> Lookup(obj, rs[i])])

\* const targetRegions = regions.size ? [...regions] : allRegions
TargetRegions(regions, allRegions) ==
  IF Len(regions) # 0 THEN regions ELSE allRegions

\* const otherRegions = allRegions.filter(r => !regions.has(r))
OtherRegions(regions, allRegions) ==
  LET NotDetected(r) == r \notin Range(regions)
  IN  SelectSeq(allRegions, NotDetected)

\* new Set([...Object.keys(parties), ...Object.keys(institutions), ...Object.keys(people)])
AllRegions(p) == Dedup(Keys(p.parties) \o Keys(p.institutions) \o Keys(p.people))

\* the anchors pushed for region r: its defaults, then its parties,
\* institutions and people
AnchorsOf(p, r) ==
  defaultRegionAnchors(r) \o Lookup(p.parties, r)
    \o Lookup(p.institutions, r) \o Lookup(p.people, r)

\* out.anchorTokens = Array.from(new Set(anchorList.map(s => String(s).toLowerCase())))
AnchorTokens(p, targetRegions) ==
  Dedup(Flatten([i \in 1..Len(targetRegions) |->
                   [k \in 1..Len(AnchorsOf(p, targetRegions[i])) |->
                      toLowerCase(AnchorsOf(p, targetRegions[i])[k])]]))

\* out.excludeTokens = excl, collected from parties, institutions and people
ExcludeTokens(p, otherRegions) ==
  collectFromRegions(p.parties, otherRegions)
    \o collectFromRegions(p.institutions, otherRegions)
    \o collectFromRegions(p.people, otherRegions)

\* const out = { phrases: [...qparts.phrases], tokens: [...qparts.tokens],
\*               excludeTokens: [], anchorTokens: [] }
OutCopy(qparts) ==
  [phrases |-> qparts.phrases, tokens |-> qparts.tokens,
   excludeTokens |-> <<>>, anchorTokens |-> <<>>]

\* the politics branch: synonyms, the target regions' names, the anchors and
\* exclusions, then the related terms
ExpandPolitics(qparts, p, targetRegions, otherRegions) ==
  addTerms([addTerms(addTerms(addTerms(addTerms(OutCopy(qparts), p.synonyms),
                collectFromRegions(p.parties, targetRegions)),
                collectFromRegions(p.institutions, targetRegions)),
                collectFromRegions(p.people, targetRegions))
              EXCEPT !.anchorTokens  = AnchorTokens(p, targetRegions),
                     !.excludeTokens = ExcludeTokens(p, otherRegions)],
           p.related_terms)

\* the politics branch with its locals kept beside the result
PoliticsDetail(qparts, p, regions, allRegions) ==
  [triggered     |-> TRUE,
   regions       |-> regions,
   allRegions    |-> allRegions,
   targetRegions |-> TargetRegions(regions, allRegions),
   otherRegions  |-> OtherRegions(regions, allRegions),
   out           |-> ExpandPolitics(qparts, p, TargetRegions(regions, allRegions),
                                    OtherRegions(regions, allRegions))]

\* whether out.phrases and out.tokens are the arrays of qparts: they are
\* spread copies, [...qparts.phrases] and [...qparts.tokens]
sharesArrays == FALSE

\* the caller's qparts once the call has returned out: what addTerm pushed
\* reaches it only through an array it shares with out
callerParts(qparts, out) ==
  IF sharesArrays /\ domainTerms.present
    THEN [qparts EXCEPT !.phrases = out.phrases, !.tokens = out.tokens]
    ELSE qparts

\* the body of expandQueryWithDomain once domainTerms is known to be there
ExpandDetail(qparts, query) ==
  IF domainTerms.hasPolitics /\ shouldUsePoliticsDomain(query)
    THEN PoliticsDetail(qparts, domainTerms.politics,
                        detectRegionsFromContext(query), AllRegions(domainTerms.politics))
    ELSE [triggered |-> FALSE, regions |-> <<>>, allRegions |-> <<>>,
          targetRegions |-> <<>>, otherRegions |-> <<>>, out |-> OutCopy(qparts)]

expandQueryWithDomain(qparts, query) ==
  IF ~ domainTerms.present THEN qparts ELSE ExpandDetail(qparts, query).out

\* ------------------------------------------------------------------------
\* Query-driven headline search and ranking
\* ------------------------------------------------------------------------

\* one phrase of the loop: +8 for the title, +4 for the summary
PhraseStep(acc, inTitle, inSummary) ==
  [score     |-> acc.score + (IF inTitle THEN 8 ELSE 0) + (IF inSummary THEN 4 ELSE 0),
   phraseHit |-> acc.phraseHit \/ inTitle \/ inSummary]

\* the phrase loop of headlineSearchScore from phrase k on; acc = [score, phraseHit]
RECURSIVE PhraseLoop(_, _, _, _, _)
PhraseLoop(phrases, k, title, summary, acc) ==
  IF k > Len(phrases) THEN acc
  ELSE PhraseLoop(phrases, k + 1, title, summary,
                  PhraseStep(acc, includes(title, trim(toLowerCase(phrases[k]))),
                                  includes(summary, trim(toLowerCase(phrases[k])))))

\* const inTitle = reWord.test(title) || (t.length >= 4 && tokensContainStem(titleTokens, t))
TokenHit(t, text, textTokens) ==
  reWordTest(t, text) \/ (Len(t) >= 4 /\ tokensContainStem(textTokens, t))

\* one token of the loop: +2 and a title hit for the title, +1 for the summary
TokenStep(acc, inTitle, inSummary) ==
  [score          |-> acc.score + (IF inTitle THEN 2 ELSE 0) + (IF inSummary THEN 1 ELSE 0),
   titleTokenHits |-> acc.titleTokenHits + (IF inTitle THEN 1 ELSE 0)]

\* the token loop from token k on; acc = [score, titleTokenHits]
RECURSIVE TokenLoop(_, _, _, _, _, _, _)
TokenLoop(tokens, k, title, summary, titleTokens, summaryTokens, acc) ==
  IF k > Len(tokens) THEN acc
  ELSE TokenLoop(tokens, k + 1, title, summary, titleTokens, summaryTokens,
                 TokenStep(acc, TokenHit(tokens[k], title, titleTokens),
                                TokenHit(tokens[k], summary, summaryTokens)))

\* a gate that lets a raw score of 4 through
GatePassFrom4(phraseHit, titleTokenHits, score) ==
  phraseHit \/ titleTokenHits >= 2 \/ score >= 4

\* const pass = phraseHit || titleTokenHits >= 2 || score >= 5
GatePass(phraseHit, titleTokenHits, score) ==
  phraseHit \/ titleTokenHits >= 2 \/ score >= 5

\* the score of headlineSearchScore before its gate, with the two facts the
\* gate reads: [score, phraseHit, titleTokenHits];
\* if (titleTokenHits >= qparts.tokens.length && qparts.tokens.length > 0) score += 2
RawAfterTokens(ph, tk, tokens) ==
  [score |-> IF tk.titleTokenHits >= Len(tokens) /\ Len(tokens) > 0
               THEN tk.score + 2 ELSE tk.score,
   phraseHit |-> ph.phraseHit,
   titleTokenHits |-> tk.titleTokenHits]

RawAfterPhrases(ph, qparts, title, summary) ==
  RawAfterTokens(ph,
                 TokenLoop(qparts.tokens, 1, title, summary,
                           tokensFromText(title), tokensFromText(summary),
                           [score |-> ph.score, titleTokenHits |-> 0]),
                 qparts.tokens)

RawScore(h, qparts) ==
  RawAfterPhrases(PhraseLoop(qparts.phrases, 1, toLowerCase(h.title), toLowerCase(h.summary),
                             [score |-> 0, phraseHit |-> FALSE]),
                  qparts, toLowerCase(h.title), toLowerCase(h.summary))

\* a return without the gate
GateRawOpen(raw) == raw.score

\* return pass ? score : 0
GateRaw(raw) ==
  IF GatePass(raw.phraseHit, raw.titleTokenHits, raw.score) THEN raw.score ELSE 0

headlineSearchScore(h, qparts) == GateRaw(RawScore(h, qparts))

\* tokensFromText(`${title} ${summary}`)
combinedTokens(item) == tokensFromText(item.title \o <<" ">> \o item.summary)

\* for (const a of qparts.anchorTokens) { if (...) { hasAnchor = true; break; } }
RECURSIVE AnchorLoop(_, _, _)
AnchorLoop(anchors, k, toks) ==
  IF k > Len(anchors) THEN FALSE
  ELSE IF tokensContainStem(toks, toLowerCase(anchors[k])) THEN TRUE
  ELSE AnchorLoop(anchors, k + 1, toks)

\* for (const ex of qparts.excludeTokens) { if (...) { if (!hasAnchor) s = 0; break; } }
RECURSIVE ExcludeLoop(_, _, _, _, _)
ExcludeLoop(s, excl, k, toks, hasAnchor) ==
  IF k > Len(excl) THEN s
  ELSE IF tokensContainStem(toks, toLowerCase(excl[k]))
    THEN (IF ~ hasAnchor THEN 0 ELSE s)
  ELSE ExcludeLoop(s, excl, k + 1, toks, hasAnchor)

\* a suppression that never looks for an anchor
HasAnchorNever(qparts, toks) == FALSE

\* let hasAnchor = false; if (qparts.anchorTokens && qparts.anchorTokens.length) { ... }
HasAnchor(qparts, toks) ==
  /\ "anchorTokens" \in DOMAIN qparts
  /\ Len(qparts.anchorTokens) > 0
  /\ AnchorLoop(qparts.anchorTokens, 1, toks)

\* the cross-region suppression of searchHeadlines on one scored item
Suppress(s, item, qparts) ==
  IF /\ s > 0
     /\ "excludeTokens" \in DOMAIN qparts
     /\ Len(qparts.excludeTokens) > 0
    THEN ExcludeLoop(s, qparts.excludeTokens, 1, combinedTokens(item),
                     HasAnchor(qparts, combinedTokens(item)))
    ELSE s

\* an insertion that puts e before the entries of its own score
InsertBeforeTies(sorted, e) ==
  SubSeq(sorted, 1, Cardinality({i \in 1..Len(sorted) : sorted[i].score > e.score}))
    \o <<e>>
    \o SubSeq(sorted, Cardinality({i \in 1..Len(sorted) : sorted[i].score > e.score}) + 1,
              Len(sorted))

\* sorted, a list in non-increasing score order, with e put after every entry
\* that does not score less (Array.prototype.sort is stable)
InsertByScore(sorted, e) ==
  LET k == Cardinality({i \in 1..Len(sorted) : sorted[i].score >= e.score})
  IN  SubSeq(sorted, 1, k) \o <<e>> \o SubSeq(sorted, k + 1, Len(sorted))

\* scored.sort((a, b) => b.score - a.score)
RECURSIVE SortByScore(_)
SortByScore(s) ==
  IF s = <<>> THEN <<>>
  ELSE InsertByScore(SortByScore(sliceOff(s, 1)), s[Len(s)])

\* list.slice(0, limit), limit >= 0
sliceTo(list, limit) == SubSeq(list, 1, IF limit < Len(list) THEN limit ELSE Len(list))

\* if (s > 0) scored.push({ index: i, score: s }), for every i
Scored(final) ==
  SelectSeq([i \in 1..Len(final) |-> [index |-> i - 1, score |-> final[i]]],
            LAMBDA e : e.score > 0)

FinalScores(items, qparts, gated) ==
  [i \in 1..Len(items) |-> Suppress(gated[i], items[i], qparts)]

\* if (!qparts.phrases.length && !qparts.tokens.length) return []
SearchSorted(qparts, final) ==
  IF Len(qparts.phrases) = 0 /\ Len(qparts.tokens) = 0
    THEN <<>>
    ELSE SortByScore(Scored(final))

SearchWithFinal(qparts, raw, gated, final) ==
  [qparts |-> qparts, raw |-> raw, gated |-> gated, final |-> final,
   sorted |-> SearchSorted(qparts, final)]

SearchWithGated(items, qparts, gated) ==
  SearchWithFinal(qparts, [i \in 1..Len(items) |-> RawScore(items[i], qparts)], gated,
                  FinalScores(items, qparts, gated))

\* let s = headlineSearchScore(items[i], qparts), for every i
SearchWith(items, qparts) ==
  SearchWithGated(items, qparts,
                  [i \in 1..Len(items) |-> headlineSearchScore(items[i], qparts)])

\* searchHeadlines up to its slice, with what it computes on the way: the
\* expanded query, each item's score before the gate, after the gate and
\* after suppression, and the sorted hits
SearchDetail(query, items) ==
  SearchWith(items, expandQueryWithDomain(parseQueryParts(query), query))

searchHeadlines(query, items, limit) == sliceTo(SearchDetail(query, items).sorted, limit)

\* ------------------------------------------------------------------------
\* Selection from the summary text
\* ------------------------------------------------------------------------

\* the test of titleMatchScore for one title token t
WordInSummary(t, summaryNorm) ==
  \/ includes(summaryNorm, <<" ">> \o t \o <<" ">>)
  \/ startsWith(summaryNorm, t \o <<" ">>)
  \/ endsWith(summaryNorm, <<" ">> \o t)
  \/ summaryNorm = t

\* the body of titleMatchScore for the tokens toks of the title: it returns
\* matches / toks.length, or 0 for a title without tokens; the quotient is
\* kept as <<matches, toks.length>>
matchScore(toks, summaryNorm) ==
  IF Len(toks) = 0 THEN <<0, 1>>
  ELSE <<Cardinality({k \in 1..Len(toks) : WordInSummary(toks[k], summaryNorm)}), Len(toks)>>

titleMatchScore(title, summaryNorm) == matchScore(tokensFromTitle(title), summaryNorm)

\* a threshold that asks for more than half
MoreThanHalf(score) == 2 * score[1] > score[2]

\* score >= 0.5 for score = <<matches, total>>
AtLeastHalf(score) == 2 * score[1] >= score[2]

\* const allowed = allowedIdxs ? new Set(allowedIdxs) : null, kept as
\* [given, idxs]; null is [given |-> FALSE]
NoAllowed == [given |-> FALSE, idxs |-> <<>>]

AllowedOf(idxs) == [given |-> TRUE, idxs |-> idxs]

\* const iterate = (allowed ? [...allowed] : headlines.map((_, i) => i))
IterateOver(allowed, items) ==
  IF allowed.given THEN Dedup(allowed.idxs) ELSE [i \in 1..Len(items) |-> i - 1]

\* toks.length >= 2 && score >= 0.5, for a headline that is there
StrongMatch(items, idx, summaryNorm) ==
  /\ idx >= 0
  /\ idx < Len(items)
  /\ Len(tokensFromTitle(items[idx + 1].title)) >= 2
  /\ AtLeastHalf(titleMatchScore(items[idx + 1].title, summaryNorm))

\* the forEach of autoSelectFromSummary from entry k on; acc = [checked, count]
RECURSIVE SummaryLoop(_, _, _, _, _)
SummaryLoop(iterate, k, items, summaryNorm, acc) ==
  IF k > Len(iterate) THEN acc
  ELSE SummaryLoop(iterate, k + 1, items, summaryNorm,
                   IF StrongMatch(items, iterate[k], summaryNorm)
                     THEN [checked |-> acc.checked \cup {iterate[k]}, count |-> acc.count + 1]
                     ELSE acc)

\* autoSelectFromSummary on the list items with the boxes boxes checked:
\* the boxes checked afterwards and the count returned
autoSelectFromSummary(summaryText, allowed, items, boxes) ==
  SummaryLoop(IterateOver(allowed, items), 1, items,
              <<" ">> \o normalizeText(summaryText) \o <<" ">>,
              [checked |-> boxes, count |-> 0])

\* ------------------------------------------------------------------------
\* URLs
\* ------------------------------------------------------------------------

\* the first position of s, from position i on, holding a character of cs;
\* Len(s) + 1 when there is none
FirstOf(s, i, cs) ==
  IF \E k \in i..Len(s) : s[k] \in cs
    THEN CHOOSE k \in i..Len(s) : s[k] \in cs /\ \A j \in i..(k - 1) : s[j] \notin cs
    ELSE Len(s) + 1

\* the length of the "http://" or "https://" that t starts with, 0 for neither
SchemeLen(t) ==
  IF startsWith(toLowerCase(t), <<"h","t","t","p",":","/","/">>) THEN 7
  ELSE IF startsWith(toLowerCase(t), <<"h","t","t","p","s",":","/","/">>) THEN 8
  ELSE 0

\* new URL(u) does not throw: of the strings the checks draw, those that are
\* an http or https URL with a host; a string without a scheme does not parse
UrlParses(u) ==
  /\ SchemeLen(trim(u)) > 0
  /\ FirstOf(trim(u), SchemeLen(trim(u)) + 1, {"/", "?", "#"}) > SchemeLen(trim(u)) + 1

\* new URL(t) for such a string: scheme and host in lower case, the path ("/"
\* when there is none), the query string and the fragment
UrlParts(t, hostEnd, pathEnd, searchEnd) ==
  [origin |-> toLowerCase(SubSeq(t, 1, hostEnd - 1)),
   path   |-> IF pathEnd = hostEnd THEN <<"/">> ELSE SubSeq(t, hostEnd, pathEnd - 1),
   search |-> SubSeq(t, pathEnd, searchEnd - 1),
   hash   |-> SubSeq(t, searchEnd, Len(t))]

UrlFrom(t, hostEnd) ==
  UrlParts(t, hostEnd, FirstOf(t, hostEnd, {"?", "#"}), FirstOf(t, hostEnd, {"#"}))

parseUrl(u) == UrlFrom(trim(u), FirstOf(trim(u), SchemeLen(trim(u)) + 1, {"/", "?", "#"}))

\* url.toString()
urlToString(url) == url.origin \o url.path \o url.search \o url.hash

\* if (s.endsWith('/')) s = s.slice(0, -1)
dropSlash(s) == IF endsWith(s, <<"/">>) THEN sliceOff(s, 1) ELSE s

\* a normalisation that keeps letter case, query string, fragment and slash
normalizeUrlRaw(u) == trim(u)

normalizeUrl(u) ==
  IF UrlParses(u)
    THEN toLowerCase(dropSlash(urlToString([parseUrl(u) EXCEPT !.hash = <<>>, !.search = <<>>])))
    ELSE IF u = <<>> THEN <<>>
    ELSE toLowerCase(dropSlash(trim(u)))

urlsEqual(a, b) == normalizeUrl(a) = normalizeUrl(b)

\* ------------------------------------------------------------------------
\* Selection from structured mentions
\* ------------------------------------------------------------------------

\* a mention { url, index, title }; an absent url or title is <<>>, an
\* absent index has hasIndex FALSE
ObjMention(url, hasIndex, index, title) ==
  [kind |-> "object", url |-> url, hasIndex |-> hasIndex, index |-> index,
   title |-> title, text |-> <<>>]

\* a mention that is a bare string
StrMention(text) ==
  [kind |-> "string", url |-> <<>>, hasIndex |-> FALSE, index |-> 0,
   title |-> <<>>, text |-> text]

\* a mention that is a bare integer
IntMention(n) ==
  [kind |-> "number", url |-> <<>>, hasIndex |-> TRUE, index |-> n,
   title |-> <<>>, text |-> <<>>]

\* Array.prototype.findIndex, given the positions (from 1) at which the
\* callback holds: the first of them counted from 0, else -1
findIndex(hits) ==
  IF hits = {} THEN -1 ELSE (CHOOSE i \in hits : \A j \in hits : i <= j) - 1

\* headlines.findIndex(h => urlsEqual(h.link, url))
findByUrl(items, url) == findIndex({i \in 1..Len(items) : urlsEqual(items[i].link, url)})

\* headlines.findIndex(h => (h.title || '').trim().toLowerCase() === tnorm)
findByTitle(items, tnorm) ==
  findIndex({i \in 1..Len(items) : toLowerCase(trim(items[i].title)) = tnorm})

\* headlines.findIndex(h => (h.title || '').toLowerCase().includes(tnorm) && tnorm.length >= 8)
findByContainedTitle(items, tnorm) ==
  findIndex({i \in 1..Len(items) : includes(toLowerCase(items[i].title), tnorm) /\ Len(tnorm) >= 8})

\* if (m.url) idx = headlines.findIndex(...)
urlRule(m, items) == IF m.url # <<>> THEN findByUrl(items, m.url) ELSE -1

\* if (idx < 0 && Number.isInteger(m.index) && m.index >= 0 && m.index < headlines.length)
indexRule(m, items, idx) ==
  IF idx < 0 /\ m.hasIndex /\ m.index >= 0 /\ m.index < Len(items) THEN m.index ELSE idx

\* the exact match, then the weak fallback
titleLookup(items, tnorm) ==
  IF findByTitle(items, tnorm) < 0
    THEN findByContainedTitle(items, tnorm)
    ELSE findByTitle(items, tnorm)

\* if (idx < 0 && m.title) { ... }
titleRule(m, items, idx) ==
  IF idx < 0 /\ m.title # <<>> THEN titleLookup(items, toLowerCase(trim(m.title))) ELSE idx

\* the index a mention resolves to, -1 for none
resolveMention(m, items) ==
  CASE m.kind = "object" -> titleRule(m, items, indexRule(m, items, urlRule(m, items)))
    [] m.kind = "string" ->
         IF startsWith(m.text, <<"h","t","t","p">>)
           THEN findByUrl(items, m.text)
           ELSE findByTitle(items, toLowerCase(trim(m.text)))
    [] m.kind = "number" ->
         IF m.index >= 0 /\ m.index < Len(items) THEN m.index ELSE -1

\* a resolution that passes an index already seen
AcceptsSeen(idx, seen, allowed) ==
  idx >= 0 /\ (~ allowed.given \/ idx \in Range(allowed.idxs))

\* if (idx >= 0 && !seen.has(idx) && (!allowed || allowed.has(idx)))
Accepts(idx, seen, allowed) ==
  /\ idx >= 0
  /\ idx \notin seen
  /\ (~ allowed.given \/ idx \in Range(allowed.idxs))

\* one mention of the loop; acc = [checked, seen, count]
mentionStep(acc, idx, allowed) ==
  IF Accepts(idx, acc.seen, allowed)
    THEN [checked |-> acc.checked \cup {idx}, seen |-> acc.seen \cup {idx},
          count |-> acc.count + 1]
    ELSE acc

\* the loop of autoSelectByMentions from mention k on
RECURSIVE MentionLoop(_, _, _, _, _)
MentionLoop(mentions, k, items, allowed, acc) ==
  IF k > Len(mentions) THEN acc
  ELSE MentionLoop(mentions, k + 1, items, allowed,
                   mentionStep(acc, resolveMention(mentions[k], items), allowed))

\* autoSelectByMentions on the list items with the boxes boxes checked: the
\* boxes checked afterwards, the Set seen and the count returned
autoSelectByMentions(mentions, allowed, items, boxes) ==
  MentionLoop(mentions, 1, items, allowed, [checked |-> boxes, seen |-> {}, count |-> 0])

\* ------------------------------------------------------------------------
\* The video candidate filter
\* ------------------------------------------------------------------------

videoTypeBucket(v) ==
  CASE toLowerCase(v.sourceType) \in {<<"y","o","u","t","u","b","e">>, <<"v","i","m","e","o">>}
         -> "platform"
    [] toLowerCase(v.sourceType) \in {<<"m","p","4">>, <<"w","e","b","m">>} -> "direct"
    [] toLowerCase(v.sourceType) = <<"m","3","u","8">> -> "stream"
    [] OTHER -> "embed"

\* if (typeVal !== 'all') out = out.filter(...); a value that names no
\* bucket filters nothing
typeFilter(out, typeVal) ==
  IF typeVal \in {"platform", "direct", "stream", "embed"}
    THEN SelectSeq(out, LAMBDA v : videoTypeBucket(v) = typeVal)
    ELSE out

\* a playable-only stage that filters nothing
playableFilterOff(out, playableOnly) == out

\* if (playableOnly) out = out.filter(...)
playableFilter(out, playableOnly) ==
  IF playableOnly
    THEN SelectSeq(out, LAMBDA v : videoTypeBucket(v) \in {"platform", "direct", "stream"})
    ELSE out

\* window.location's hostname, which a URL that is not absolute resolves to
LocationHost == <<"l","o","c","a","l","h","o","s","t">>

\* new URL(u, window.location.href).hostname.toLowerCase()
hostnameOf(u) ==
  IF UrlParses(u)
    THEN SubSeq(parseUrl(u).origin, SchemeLen(trim(u)) + 1, Len(parseUrl(u).origin))
    ELSE LocationHost

\* the callback of the keyword filter
MatchesKeyword(v, q) ==
  \/ includes(toLowerCase(v.title), q)
  \/ includes(toLowerCase(v.srcUrl), q)
  \/ includes(toLowerCase(v.pageUrl), q)
  \/ includes(hostnameOf(v.srcUrl), q)
  \/ includes(hostnameOf(v.pageUrl), q)

\* if (q) out = out.filter(...)
keywordFilter(out, q) ==
  IF q # <<>> THEN SelectSeq(out, LAMBDA v : MatchesKeyword(v, q)) ELSE out

\* getSelectedHeadlineUrls(): the links of the checked headlines
getSelectedHeadlineUrls(items, boxes) == {items[i + 1].link : i \in boxes \cap 0..(Len(items) - 1)}

\* if (fromSelectedOnly) out = out.filter(v => selected.has(v.pageUrl))
selectedFilter(out, fromSelectedOnly, selected) ==
  IF fromSelectedOnly THEN SelectSeq(out, LAMBDA v : v.pageUrl \in selected) ELSE out

\* const rank = (v) => ...
rank(v) ==
  CASE videoTypeBucket(v) = "platform" -> 3
    [] videoTypeBucket(v) = "direct"   -> 3
    [] videoTypeBucket(v) = "stream"   -> 2
    [] OTHER                           -> 1

\* const key = v.pageUrl || v.srcUrl
groupKey(v) == IF v.pageUrl # <<>> THEN v.pageUrl ELSE v.srcUrl

\* the position of key in the Map best, kept as <<[key, v], ...>> in
\* insertion order; 0 when the Map does not hold it
mapIndex(best, key) ==
  IF \E i \in 1..Len(best) : best[i].key = key
    THEN CHOOSE i \in 1..Len(best) : best[i].key = key
    ELSE 0

\* a comparison that lets a later candidate of equal rank replace the holder
outranksOrTies(v, cur) == rank(v) >= rank(cur)

\* rank(v) > rank(cur)
outranks(v, cur) == rank(v) > rank(cur)

\* if (!cur || rank(v) > rank(cur)) best.set(key, v), the holder at position i
bestSet(best, i, v) ==
  IF i = 0 THEN Append(best, [key |-> groupKey(v), v |-> v])
  ELSE IF outranks(v, best[i].v) THEN [best EXCEPT ![i].v = v]
  ELSE best

\* for (const v of out) { ... } from candidate k on
RECURSIVE bestLoop(_, _, _)
bestLoop(out, k, best) ==
  IF k > Len(out) THEN best
  ELSE bestLoop(out, k + 1, bestSet(best, mapIndex(best, groupKey(out[k])), out[k]))

\* if (uniquePerPage) { ...; out = Array.from(best.values()) }
uniqueFilter(out, uniquePerPage) ==
  IF uniquePerPage
    THEN [i \in 1..Len(bestLoop(out, 1, <<>>)) |-> bestLoop(out, 1, <<>>)[i].v]
    ELSE out

\* a priority that puts platform and direct candidates in one class
bucketPriorityMerged(v) ==
  CASE videoTypeBucket(v) \in {"platform", "direct"} -> "0"
    [] videoTypeBucket(v) = "stream" -> "2"
    [] OTHER -> "3"

\* const prio = b === 'platform' ? 0 : (b === 'direct' ? 1 : (b === 'stream' ? 2 : 3))
bucketPriority(v) ==
  CASE videoTypeBucket(v) = "platform" -> "0"
    [] videoTypeBucket(v) = "direct"   -> "1"
    [] videoTypeBucket(v) = "stream"   -> "2"
    [] OTHER                           -> "3"

\* const sortKey = (v) => `${prio}|${(v.title || '').toLowerCase()}`
sortKey(v) == <<bucketPriority(v), "|">> \o toLowerCase(v.title)

\* the order in which localeCompare puts the characters of the sort keys:
\* the space, the bar, the digits, the letters
CollationOrder == <<" ", "|">> \o <<"0","1","2","3","4","5","6","7","8","9">> \o LowerAlpha

collationRank(c) == CHOOSE i \in 1..Len(CollationOrder) : CollationOrder[i] = c

\* a.localeCompare(b) < 0, for strings of those characters
comesBefore(a, b) ==
  \E i \in 1..Len(b) :
    /\ \A j \in 1..(i - 1) : j <= Len(a) /\ a[j] = b[j]
    /\ (i > Len(a) \/ (i - 1 < Len(a) /\ collationRank(a[i]) < collationRank(b[i])))

\* an insertion that puts v before the entries of its own sort key
insertBeforeEqualKeys(sorted, v) ==
  SubSeq(sorted, 1, Cardinality({i \in 1..Len(sorted) : comesBefore(sortKey(sorted[i]), sortKey(v))}))
    \o <<v>>
    \o SubSeq(sorted, Cardinality({i \in 1..Len(sorted) : comesBefore(sortKey(sorted[i]), sortKey(v))}) + 1,
              Len(sorted))

\* sorted with v put after every entry that does not come after it
\* (Array.prototype.sort is stable)
insertByKey(sorted, v) ==
  SubSeq(sorted, 1, Cardinality({i \in 1..Len(sorted) : ~ comesBefore(sortKey(v), sortKey(sorted[i]))}))
    \o <<v>>
    \o SubSeq(sorted, Cardinality({i \in 1..Len(sorted) : ~ comesBefore(sortKey(v), sortKey(sorted[i]))}) + 1,
              Len(sorted))

\* out.sort((a, b) => sortKey(a).localeCompare(sortKey(b)))
RECURSIVE sortByKey(_)
sortByKey(out) ==
  IF out = <<>> THEN <<>>
  ELSE insertByKey(sortByKey(sliceOff(out, 1)), out[Len(out)])

\* the candidates that pass the type, playable, keyword and selection filters
passFilters(all, c, selected) ==
  selectedFilter(keywordFilter(playableFilter(typeFilter(all, c.type), c.playableOnly),
                               trim(toLowerCase(c.search))),
                 c.fromSelectedOnly, selected)

\* applyVideoFilters(all), with the controls c and the checked headlines
applyVideoFilters(all, c, items, boxes) ==
  sortByKey(uniqueFilter(passFilters(all, c, getSelectedHeadlineUrls(items, boxes)),
                         c.uniquePerPage))

\* ------------------------------------------------------------------------
\* The click handlers of Fetch Headlines and Summarize
\* ------------------------------------------------------------------------

\* matches.map(m => m.index)
matchIndices(matches) == [k \in 1..Len(matches) |-> matches[k].index]

\* idxs.map(i => headlines[i])
itemsAt(items, idxs) == [k \in 1..Len(idxs) |-> items[idxs[k] + 1]]

\* if (Array.isArray(qpartsForEx.excludeTokens) && qpartsForEx.excludeTokens.length)
\*   toSummarize = headlines.filter(...): the items no exclude token stem-matches
dropCrossRegion(items, qparts) ==
  IF "excludeTokens" \in DOMAIN qparts /\ Len(qparts.excludeTokens) > 0
    THEN SelectSeq(items,
                   LAMBDA item :
                     \A k \in 1..Len(qparts.excludeTokens) :
                       ~ tokensContainStem(combinedTokens(item),
                                           toLowerCase(qparts.excludeTokens[k])))
    ELSE items

\* the handler of Summarize up to its await, for the lexical matches found:
\* the boxes checked, the allowed set and the headlines sent, and the status
prefilter(expand, matches, items, boxes, query) ==
  IF ~ expand
    THEN IF Len(matches) > 0
           THEN [checked     |-> Range(matchIndices(matches)),
                 allowed     |-> AllowedOf(matchIndices(matches)),
                 toSummarize |-> itemsAt(items, matchIndices(matches)),
                 status      |-> "Found matches. Summarizing them..."]
           ELSE [checked     |-> boxes,
                 allowed     |-> NoAllowed,
                 toSummarize |-> items,
                 status      |-> "No direct matches found. Summarizing all..."]
    ELSE [checked     |-> {},
          allowed     |-> NoAllowed,
          toSummarize |-> dropCrossRegion(items, expandQueryWithDomain(parseQueryParts(query), query)),
          status      |-> IF Len(matches) > 0
                            THEN "Found lexical matches. Expanding with AI..."
                            ELSE "Expanding with AI across all headlines..."]

\* a handler that runs the fallback whatever the mentions selected
fallbackAlways(count) == TRUE

\* if (count === 0)
fallbackNeeded(count) == count = 0

\* if (Array.isArray(out.mentions) && out.mentions.length) { clearAllSelections();
\*   count = autoSelectByMentions(out.mentions, allowedIdxs); }
\* what the mentions select: [checked, seen, count], the boxes left as they
\* are when there are no mentions
mentionStage(out, allowed, items, boxes) ==
  IF out.hasMentions /\ Len(out.mentions) > 0
    THEN autoSelectByMentions(out.mentions, allowed, items, {})
    ELSE [checked |-> boxes, seen |-> {}, count |-> 0]

\* the handler's state once the fallback has returned fb = [checked, count]
afterFallback(st, fb) ==
  [checked      |-> fb.checked,
   count        |-> fb.count,
   seen         |-> st.seen,
   fromMentions |-> st.count,
   ranFallback  |-> TRUE]

\* if (count === 0) count = autoSelectFromSummary(out.summary || '', allowedIdxs)
\* after the mention stage st: [checked, count, seen, ranFallback]
fallbackStage(st, out, allowed, items) ==
  IF fallbackNeeded(st.count)
    THEN afterFallback(st, autoSelectFromSummary(out.summary, allowed, items, st.checked))
    ELSE [checked     |-> st.checked,
          count       |-> st.count,
          seen        |-> st.seen,
          fromMentions |-> st.count,
          ranFallback |-> FALSE]

\* the handler of Summarize after its await, for the response out
refineSelection(out, allowed, items, boxes) ==
  fallbackStage(mentionStage(out, allowed, items, boxes), out, allowed, items)

\* seq without its k-th element
removeAt(seq, k) == SubSeq(seq, 1, k - 1) \o SubSeq(seq, k + 1, Len(seq))

\* ------------------------------------------------------------------------
\* The inputs the checks draw from
\* ------------------------------------------------------------------------

H1 ==
  [title   |-> <<"U","K"," ","P","r","i","m","e"," ","M","i","n","i","s","t","e","r"," ","a","n","n","o","u","n","c","e","s"," ","e","l","e","c","t","i","o","n">>,
   summary |-> <<"T","h","e"," ","p","r","i","m","e"," ","m","i","n","i","s","t","e","r"," ","s","p","o","k","e">>,
   link    |-> <<"h","t","t","p",":","/","/","x",".","c","o","m","/","a">>]

H2 ==
  [title   |-> <<"C","o","n","g","r","e","s","s"," ","d","e","b","a","t","e","s"," ","e","l","e","c","t","i","o","n"," ","v","o","t","e">>,
   summary |-> <<"S","e","n","a","t","e"," ","h","e","a","r","i","n","g"," ","o","n"," ","t","h","e"," ","v","o","t","e">>,
   link    |-> <<"h","t","t","p",":","/","/","x",".","c","o","m","/","b">>]

H3 ==
  [title   |-> <<"C","o","n","g","r","e","s","s"," ","a","n","d"," ","W","e","s","t","m","i","n","s","t","e","r"," ","d","i","s","c","u","s","s"," ","e","l","e","c","t","i","o","n"," ","v","o","t","e">>,
   summary |-> <<"T","h","e"," ","v","o","t","e">>,
   link    |-> <<"h","t","t","p",":","/","/","x",".","c","o","m","/","c","/">>]

H6 ==
  [title   |-> <<"E","l","e","c","t","i","o","n">>,
   summary |-> <<>>,
   link    |-> <<"h","t","t","p",":","/","/","y",".","o","r","g","/","e">>]

\* the headlines a search draws its list from
HeadlinePool == {H1, H2, H3}

Q_election == <<"e","l","e","c","t","i","o","n">>

Q_uk_election == <<"U","K"," ","e","l","e","c","t","i","o","n">>

Q_phrase == <<"\"","p","r","i","m","e"," ","m","i","n","i","s","t","e","r","\""," ","e","l","e","c","t","i","o","n"," ","v","o","t","e">>

Q_empty == <<>>

\* a query without a politics keyword
Q_plain == <<"b","u","d","g","e","t"," ","v","o","t","e">>

\* a phrase that only the summary of H1 holds, beside two plain tokens
Q_spoke == <<"\"","s","p","o","k","e","\""," ","b","u","d","g","e","t"," ","v","o","t","e">>

QueryPool == {Q_election, Q_uk_election, Q_phrase, Q_empty, Q_plain, Q_spoke}

G_none == <<>>

G_uk == <<"u","k","_","n","e","w","s">>

GroupPool == {G_none, G_uk}

NoPolitics ==
  [synonyms |-> <<>>, related_terms |-> <<>>, parties |-> <<>>,
   institutions |-> <<>>, people |-> <<>>]

\* domainTerms = null
DT_absent == [present |-> FALSE, hasPolitics |-> FALSE, politics |-> NoPolitics]

\* a domain_terms.json without a politics entry
DT_other == [present |-> TRUE, hasPolitics |-> FALSE, politics |-> NoPolitics]

\* a domain_terms.json with a politics entry
DT_politics ==
  [present |-> TRUE, hasPolitics |-> TRUE,
   politics |->
     [synonyms      |-> <<<<"v","o","t","e">>, <<"g","e","n","e","r","a","l"," ","e","l","e","c","t","i","o","n">>>>,
      related_terms |-> <<<<"b","a","l","l","o","t">>>>,
      parties       |-> << <<"uk", <<<<"L","a","b","o","u","r">>>>>>, <<"usa", <<<<"D","e","m","o","c","r","a","t","s">>>>>> >>,
      institutions  |-> << <<"usa", <<<<"C","o","n","g","r","e","s","s">>>>>>, <<"uk", <<<<"C","o","m","m","o","n","s">>>>>> >>,
      people        |-> <<>>]]

DomainPool == {DT_absent, DT_other, DT_politics}

\* the sequences over S of length at most n
SeqsUpTo(S, n) == UNION {[1..k -> S] : k \in 0..n}

\* those of them that hold no element twice
DistinctSeqsUpTo(S, n) ==
  {s \in SeqsUpTo(S, n) : \A i, j \in 1..Len(s) : i # j => s[i] # s[j]}

\* the longest headline list a check draws
MaxItems == 2

\* the largest limit a check passes to searchHeadlines
MaxLimit == 2


\* the headline lists the selection functions are applied to
SelectLists == {<<H1, H2, H3>>, <<H6, H1>>, <<>>}

\* the boxes checked before a selection function is applied
CheckedPool == {{}, {0}}

\* the allowedIdxs passed: null, an empty array, one index, and some indices
\* with a repeat
AllowedPool == {NoAllowed, AllowedOf(<<>>), AllowedOf(<<1>>), AllowedOf(<<0, 2, 0>>)}

U_a == <<"h","t","t","p",":","/","/","x",".","c","o","m","/","a">>

U_root == <<"h","t","t","p",":","/","/","x",".","c","o","m">>

\* the URL of the reconciliation example
U_example == <<"h","t","t","p",":","/","/","X",".","c","o","m","/","a","?","x","=","1","#","y">>

\* strings that new URL() rejects
U_bare == <<"X",".","c","o","m","/","c">>

U_bareSlash == <<"x",".","c","o","m","/","c","/">>

WithQuery(u) == u \o <<"?","x","=","1">>

WithFragment(u) == u \o <<"#","y">>

WithSlash(u) == u \o <<"/">>

toUpperCase(s) ==
  [i \in 1..Len(s) |->
     IF s[i] \in LowerSet
       THEN UpperAlpha[CHOOSE k \in 1..26 : LowerAlpha[k] = s[i]]
       ELSE s[i]]

\* u and the URLs that differ from it only in letter case, query string,
\* fragment or a trailing slash
Variants(u) ==
  {u, toUpperCase(u), WithQuery(u), WithFragment(u), WithSlash(u),
   WithFragment(WithQuery(WithSlash(u)))}

UrlBases == {U_a, U_root}

UrlPool == UNION {Variants(u) : u \in UrlBases} \cup {U_example, U_bare, U_bareSlash, <<>>}

T_part == <<"P","r","i","m","e"," ","M","i","n","i","s","t","e","r">>

T_short == <<"v","o","t","e">>

T_exact == <<" ","C","O","N","G","R","E","S","S"," ","d","e","b","a","t","e","s"," ","e","l","e","c","t","i","o","n"," ","v","o","t","e"," ">>

\* the mentions a summarizer response draws from
MentionPool ==
  {ObjMention(U_example, TRUE, 1, <<>>),
   ObjMention(<<"h","t","t","p",":","/","/","z",".","o","r","g","/","q">>, TRUE, 1, <<>>),
   ObjMention(<<>>, TRUE, 7, T_exact),
   ObjMention(<<>>, FALSE, 0, T_part),
   ObjMention(<<>>, FALSE, 0, T_short),
   StrMention(<<"h","t","t","p",":","/","/","x",".","c","o","m","/","c">>),
   StrMention(T_part),
   StrMention(T_exact),
   IntMention(1),
   IntMention(5)}

S_congress == <<"C","o","n","g","r","e","s","s"," ","v","o","t","e","!">>

\* the summaries a summarizer response draws from
SummaryPool ==
  {<<"T","h","e"," ","U","K"," ","p","r","i","m","e"," ","m","i","n","i","s","t","e","r"," ","a","n","n","o","u","n","c","e","s"," ","a","n"," ","e","l","e","c","t","i","o","n",".">>,
   S_congress,
   <<>>}

\* the longest mentions list a check draws
MaxMentions == 2

\* video candidates: three on the page of H1, a stream on the page of H2, and one
\* without a page whose source is the page of H2
V_mp4 ==
  [title |-> <<"C","l","i","p"," ","b">>,
   srcUrl |-> <<"h","t","t","p",":","/","/","c","d","n",".","c","o","m","/","v",".","m","p","4">>,
   pageUrl |-> <<"h","t","t","p",":","/","/","x",".","c","o","m","/","a">>,
   sourceType |-> <<"m","p","4">>]

V_embed ==
  [title |-> <<"c","l","i","p"," ","a">>,
   srcUrl |-> <<"h","t","t","p",":","/","/","x",".","c","o","m","/","e">>,
   pageUrl |-> <<"h","t","t","p",":","/","/","x",".","c","o","m","/","a">>,
   sourceType |-> <<"e","m","b","e","d">>]

V_youtube ==
  [title |-> <<"c","l","i","p"," ","c">>,
   srcUrl |-> <<"h","t","t","p",":","/","/","y","o","u","t","u","b","e",".","c","o","m","/","w">>,
   pageUrl |-> <<"h","t","t","p",":","/","/","x",".","c","o","m","/","a">>,
   sourceType |-> <<"Y","o","u","T","u","b","e">>]

V_m3u8 ==
  [title |-> <<"l","i","v","e">>,
   srcUrl |-> <<"h","t","t","p",":","/","/","c","d","n",".","c","o","m","/","s",".","m","3","u","8">>,
   pageUrl |-> <<"h","t","t","p",":","/","/","x",".","c","o","m","/","b">>,
   sourceType |-> <<"m","3","u","8">>]

V_nopage ==
  [title |-> <<"l","o","o","s","e">>,
   srcUrl |-> <<"h","t","t","p",":","/","/","x",".","c","o","m","/","b">>,
   pageUrl |-> <<>>,
   sourceType |-> <<"w","e","b","m">>]

\* a second direct file with the title of V_mp4 in another case, of another page
V_mirror ==
  [title |-> <<"c","l","i","p"," ","B">>,
   srcUrl |-> <<"h","t","t","p",":","/","/","c","d","n",".","c","o","m","/","v",".","w","e","b","m">>,
   pageUrl |-> <<"h","t","t","p",":","/","/","x",".","c","o","m","/","b">>,
   sourceType |-> <<"w","e","b","m">>]

VideoPool == {V_mp4, V_embed, V_youtube, V_m3u8, V_nopage, V_mirror}

\* the texts typed into the search box
SearchTextPool == {<<>>, <<" ","C","l","i","p"," ">>, <<"L","o","c","a","l">>}

\* the settings of the video filter controls
ControlsPool ==
  [type : {"all", "platform", "direct", "stream", "embed"},
   playableOnly : BOOLEAN,
   uniquePerPage : BOOLEAN,
   fromSelectedOnly : BOOLEAN,
   search : SearchTextPool]

\* the longest candidate list a check draws
MaxVideos == 3

\* the queries typed before Summarize is clicked
AppQueryPool == {Q_uk_election}

\* the lists a fetch answers with
FetchPool == {<<H2, H3>>, <<H3>>}

\* the candidate lists a scan answers with; the empty one stands also for an
\* answer whose videos is not an array
ScanPool == {<<V_mp4, V_embed>>, <<>>}

\* a summarizer response { summary, mentions }; hasMentions is FALSE for a
\* response without a mentions array
Response(summary, hasMentions, mentions) ==
  [summary |-> summary, hasMentions |-> hasMentions, mentions |-> mentions]

ResponsePool ==
  {Response(S_congress, FALSE, <<>>),
   Response(S_congress, TRUE, <<>>),
   Response(S_congress, TRUE, <<IntMention(1)>>),
   Response(S_congress, TRUE, <<IntMention(5)>>)}

\* the number of calls of one handler that may wait for their answer at once
MaxPending == 1
\* ------------------------------------------------------------------------
\* What is common to every specification
\* ------------------------------------------------------------------------

NoCall == [fn |-> "none"]

DefaultControls ==
  [type |-> "all", playableOnly |-> FALSE, uniquePerPage |-> FALSE,
   fromSelectedOnly |-> FALSE, search |-> <<>>]

\* ------------------------------------------------------------------------
\* SpecSearch: expandQueryWithDomain and searchHeadlines applied to a query,
\* a feed group, a domain_terms.json and a headline list
\* ------------------------------------------------------------------------

InitSearch ==
  /\ headlines \in DistinctSeqsUpTo(HeadlinePool, MaxItems)
  /\ domainTerms \in DomainPool
  /\ feedGroup \in GroupPool
  /\ queryInput \in QueryPool
  /\ videos = <<>>
  /\ checked = {}
  /\ expandAI = FALSE
  /\ vidControls = DefaultControls
  /\ status = "ready"
  /\ sumCall = <<>>
  /\ fetchCall = <<>>
  /\ scanCall = <<>>
  /\ timers = {}
  /\ vidSearchTimer = 0
  /\ ret = NoCall

\* expandQueryWithDomain(parseQueryParts(query), query), as lines 698 and 939 call it
CallExpand ==
  /\ ret.fn = "none"
  /\ LET qparts == parseQueryParts(queryInput)
     IN  ret' = [fn     |-> "expandQueryWithDomain",
                 input  |-> qparts,
                 detail |-> ExpandDetail(qparts, queryInput),
                 result |-> expandQueryWithDomain(qparts, queryInput),
                 inputAfter |-> callerParts(qparts, expandQueryWithDomain(qparts, queryInput))]
  /\ UNCHANGED <<headlines, domainTerms, videos, checked, feedGroup, queryInput,
                 expandAI, vidControls, status, sumCall, fetchCall,
                 scanCall, timers, vidSearchTimer>>

\* searchHeadlines(query, headlines, limit)
CallSearch ==
  /\ ret.fn = "none"
  /\ LET detail == SearchDetail(queryInput, headlines)
     IN  \E limit \in 0..MaxLimit :
           ret' = [fn     |-> "searchHeadlines",
                   limit  |-> limit,
                   detail |-> detail,
                   result |-> sliceTo(detail.sorted, limit)]
  /\ UNCHANGED <<headlines, domainTerms, videos, checked, feedGroup, queryInput,
                   expandAI, vidControls, status, sumCall, fetchCall,
                 scanCall, timers, vidSearchTimer>>

NextSearch == CallExpand \/ CallSearch

SpecSearch == InitSearch /\ [][NextSearch]_vars

\* ------------------------------------------------------------------------
\* Properties of the domain expander and of the search
\* ------------------------------------------------------------------------

Expanded == ret.fn = "expandQueryWithDomain" /\ ret.detail.triggered

\* C1: when the politics domain is triggered, targetRegions is the detected
\* regions if there are any and all region keys otherwise, otherRegions is all
\* region keys minus targetRegions, the two are disjoint, and excludeTokens is
\* empty when no region is detected.
C1_RegionsPartition ==
  Expanded =>
    /\ ret.detail.targetRegions =
         (IF ret.detail.regions # <<>> THEN ret.detail.regions ELSE ret.detail.allRegions)
    /\ Range(ret.detail.otherRegions) =
         Range(ret.detail.allRegions) \ Range(ret.detail.targetRegions)
    /\ Range(ret.detail.targetRegions) \cap Range(ret.detail.otherRegions) = {}
    /\ (ret.detail.regions = <<>> => ret.result.excludeTokens = <<>>)

Searched == ret.fn = "searchHeadlines"

HasExcludes(qparts) ==
  "excludeTokens" \in DOMAIN qparts /\ Len(qparts.excludeTokens) > 0

\* some exclude token stem-matches the tokens of the item's title and summary
MatchesExclude(item, qparts) ==
  \E k \in 1..Len(qparts.excludeTokens) :
    tokensContainStem(combinedTokens(item), toLowerCase(qparts.excludeTokens[k]))

\* some anchor token stem-matches the tokens of the item's title and summary
MatchesAnchor(item, qparts) ==
  \E k \in 1..Len(qparts.anchorTokens) :
    tokensContainStem(combinedTokens(item), toLowerCase(qparts.anchorTokens[k]))

Dropped(i) == ret.detail.gated[i] > 0 /\ ret.detail.final[i] = 0

Kept(i) == ret.detail.gated[i] > 0 /\ ret.detail.final[i] = ret.detail.gated[i]

\* C2: with exclude tokens in the expanded query, a headline of positive gated
\* score is dropped exactly when an exclude token stem-matches its title and
\* summary and no anchor token does; otherwise its score is unchanged.
C2_SuppressIff ==
  (Searched /\ HasExcludes(ret.detail.qparts)) =>
    \A i \in 1..Len(headlines) :
      ret.detail.gated[i] > 0 =>
        IF /\ MatchesExclude(headlines[i], ret.detail.qparts)
           /\ ~ MatchesAnchor(headlines[i], ret.detail.qparts)
          THEN Dropped(i)
          ELSE Kept(i)

\* a headline dropped for a foreign name beside one kept by an anchor
C2_Witness ==
  /\ Searched
  /\ HasExcludes(ret.detail.qparts)
  /\ \E i \in 1..Len(headlines) : Dropped(i)
  /\ \E j \in 1..Len(headlines) :
       /\ Kept(j)
       /\ MatchesExclude(headlines[j], ret.detail.qparts)
       /\ MatchesAnchor(headlines[j], ret.detail.qparts)

PhrasesIn(text, phrases) ==
  {k \in 1..Len(phrases) : includes(toLowerCase(text), trim(toLowerCase(phrases[k])))}

TokensIn(text, tokens) ==
  {k \in 1..Len(tokens) :
     TokenHit(tokens[k], toLowerCase(text), tokensFromText(toLowerCase(text)))}

\* 8 per phrase in the title, 4 per phrase in the summary, 2 per token in the
\* title, 1 per token in the summary, 2 when every token hit the title; pT, pS,
\* tT and tS are the numbers of such phrases and tokens, n the number of tokens
RawScoreOf(pT, pS, tT, tS, n) ==
  8 * pT + 4 * pS + 2 * tT + tS + (IF n > 0 /\ tT = n THEN 2 ELSE 0)

PassesGate(pT, pS, tT, tS, n) ==
  pT > 0 \/ pS > 0 \/ tT >= 2 \/ RawScoreOf(pT, pS, tT, tS, n) >= 5

\* what headlineSearchScore is to return for these numbers of hits
GatedScoreOf(pT, pS, tT, tS, n) ==
  IF PassesGate(pT, pS, tT, tS, n) THEN RawScoreOf(pT, pS, tT, tS, n) ELSE 0

\* a query of one token and no phrase that hits the title only
SingleTitleHit(pT, pS, tT, tS, n) == n = 1 /\ pT = 0 /\ pS = 0 /\ tT = 1 /\ tS = 0

ScoredAsCounted(raw, gated, pT, pS, tT, tS, n) ==
  /\ raw.score = RawScoreOf(pT, pS, tT, tS, n)
  /\ gated = GatedScoreOf(pT, pS, tT, tS, n)
  /\ SingleTitleHit(pT, pS, tT, tS, n) => (raw.score = 4 /\ gated = 0)

ScoredAsClaimed(h, qparts, raw, gated) ==
  ScoredAsCounted(raw, gated,
                  Cardinality(PhrasesIn(h.title, qparts.phrases)),
                  Cardinality(PhrasesIn(h.summary, qparts.phrases)),
                  Cardinality(TokensIn(h.title, qparts.tokens)),
                  Cardinality(TokensIn(h.summary, qparts.tokens)),
                  Len(qparts.tokens))

IsBoundaryCase(h, qparts, raw, gated) ==
  /\ Len(qparts.tokens) = 1
  /\ Len(qparts.phrases) = 0
  /\ TokensIn(h.title, qparts.tokens) # {}
  /\ TokensIn(h.summary, qparts.tokens) = {}
  /\ raw.score = 4
  /\ gated = 0

Hits == {[index |-> i - 1, score |-> ret.detail.final[i]] :
           i \in {j \in 1..Len(headlines) : ret.detail.final[j] > 0}}

\* a comes before b: a higher score, or the same score and a lower index
Before(a, b) == a.score > b.score \/ (a.score = b.score /\ a.index < b.index)

Min(a, b) == IF a < b THEN a ELSE b

\* C4: searchHeadlines returns the first limit entries of the positively
\* scored headlines ordered by score, highest first, equal scores in their
\* original order: valid and distinct indices, at most limit entries.
C4_RankedPrefix ==
  Searched =>
    /\ \A k \in 1..Len(ret.result) :
         /\ ret.result[k].score > 0
         /\ ret.result[k].index \in 0..(Len(headlines) - 1)
         /\ ret.result[k] \in Hits
    /\ \A k, m \in 1..Len(ret.result) : k < m => Before(ret.result[k], ret.result[m])
    /\ Len(ret.result) <= ret.limit
    /\ Len(ret.result) = Min(ret.limit, Cardinality(Hits))
    /\ \A e \in Hits \ Range(ret.result) :
         \A k \in 1..Len(ret.result) : Before(ret.result[k], e)

\* the later headline outranks the earlier one, which the limit cuts off
C4_Witness ==
  /\ Searched
  /\ ret.limit = 1
  /\ Cardinality(Hits) = 2
  /\ Len(ret.result) = 1
  /\ ret.result[1].index = 1

\* two hits of equal score, returned in their original order
C4_TieWitness ==
  /\ Searched
  /\ Len(ret.result) = 2
  /\ ret.result[1].score = ret.result[2].score
  /\ ret.result[1].index < ret.result[2].index

\* ------------------------------------------------------------------------
\* SpecSelect: the selection functions and the URL comparison applied to a
\* rendered headline list
\* ------------------------------------------------------------------------

InitSelect ==
  /\ headlines \in SelectLists
  /\ checked \in {c \in CheckedPool : c \subseteq 0..(Len(headlines) - 1)}
  /\ domainTerms = DT_absent
  /\ feedGroup = G_none
  /\ queryInput = Q_empty
  /\ videos = <<>>
  /\ expandAI = FALSE
  /\ vidControls = DefaultControls
  /\ status = "ready"
  /\ sumCall = <<>>
  /\ fetchCall = <<>>
  /\ scanCall = <<>>
  /\ timers = {}
  /\ vidSearchTimer = 0
  /\ ret = NoCall

\* the index each mention resolves to
ResolvedAll(mentions, items) ==
  [k \in 1..Len(mentions) |-> resolveMention(mentions[k], items)]

\* autoSelectByMentions(mentions, allowedIdxs)
CallMentions ==
  /\ ret.fn = "none"
  /\ \E mentions \in SeqsUpTo(MentionPool, MaxMentions), allowed \in AllowedPool :
       /\ checked' = autoSelectByMentions(mentions, allowed, headlines, checked).checked
       /\ ret' = [fn       |-> "autoSelectByMentions",
                  mentions |-> mentions,
                  allowed  |-> allowed,
                  before   |-> checked,
                  resolved |-> ResolvedAll(mentions, headlines),
                  seen     |-> autoSelectByMentions(mentions, allowed, headlines, checked).seen,
                  result   |-> autoSelectByMentions(mentions, allowed, headlines, checked).count]
  /\ UNCHANGED <<headlines, domainTerms, videos, feedGroup, queryInput, expandAI,
                 vidControls, status, sumCall, fetchCall,
                 scanCall, timers, vidSearchTimer>>

\* autoSelectFromSummary(summaryText, allowedIdxs)
CallFromSummary ==
  /\ ret.fn = "none"
  /\ \E summaryText \in SummaryPool, allowed \in AllowedPool :
       /\ checked' = autoSelectFromSummary(summaryText, allowed, headlines, checked).checked
       /\ ret' = [fn      |-> "autoSelectFromSummary",
                  summary |-> summaryText,
                  allowed |-> allowed,
                  before  |-> checked,
                  result  |-> autoSelectFromSummary(summaryText, allowed, headlines, checked).count]
  /\ UNCHANGED <<headlines, domainTerms, videos, feedGroup, queryInput, expandAI,
                 vidControls, status, sumCall, fetchCall,
                 scanCall, timers, vidSearchTimer>>

\* urlsEqual(a, b)
CallUrlsEqual ==
  /\ ret.fn = "none"
  /\ \E a \in UrlPool, b \in UrlPool :
       ret' = [fn |-> "urlsEqual", a |-> a, b |-> b,
               na |-> normalizeUrl(a), nb |-> normalizeUrl(b),
               result |-> urlsEqual(a, b)]
  /\ UNCHANGED <<headlines, domainTerms, videos, checked, feedGroup, queryInput,
                 expandAI, vidControls, status, sumCall, fetchCall,
                 scanCall, timers, vidSearchTimer>>

NextSelect == CallMentions \/ CallFromSummary \/ CallUrlsEqual

SpecSelect == InitSelect /\ [][NextSelect]_vars

\* ------------------------------------------------------------------------
\* Properties of the selection functions and of the URL comparison
\* ------------------------------------------------------------------------

ByMentions == ret.fn = "autoSelectByMentions"

\* the URL a mention carries, <<>> for none: the url of an object, or a bare
\* string that is a URL
UrlOf(m) ==
  IF m.kind = "object" THEN m.url
  ELSE IF m.kind = "string" /\ startsWith(m.text, <<"h","t","t","p">>) THEN m.text
  ELSE <<>>

\* the title a mention carries, <<>> for none: the title of an object, or a
\* bare string that is no URL
TitleOf(m) ==
  IF m.kind = "object" THEN m.title
  ELSE IF m.kind = "string" /\ ~ startsWith(m.text, <<"h","t","t","p">>) THEN m.text
  ELSE <<>>

\* the positions S of a list, counted from 0
Positions(S) == {i - 1 : i \in S}

Least(S) == CHOOSE x \in S : \A y \in S : x <= y

UrlHits(m, items) ==
  IF UrlOf(m) = <<>> THEN {}
  ELSE Positions({j \in 1..Len(items) : normalizeUrl(items[j].link) = normalizeUrl(UrlOf(m))})

IndexHits(m, items) ==
  IF m.hasIndex /\ m.index >= 0 /\ m.index < Len(items) THEN {m.index} ELSE {}

ExactTitleHits(m, items) ==
  IF TitleOf(m) = <<>> THEN {}
  ELSE Positions({j \in 1..Len(items) :
                    toLowerCase(trim(items[j].title)) = toLowerCase(trim(TitleOf(m)))})

ContainedTitleHits(m, items) ==
  IF Len(trim(TitleOf(m))) < 8 THEN {}
  ELSE Positions({j \in 1..Len(items) :
                    includes(toLowerCase(items[j].title), toLowerCase(trim(TitleOf(m))))})

\* the first rule that succeeds, in the order URL, index, exact title,
\* contained title, applied to a mention of any shape
ResolvesByRuleOrder(m, items) ==
  IF UrlHits(m, items) # {} THEN Least(UrlHits(m, items))
  ELSE IF IndexHits(m, items) # {} THEN Least(IndexHits(m, items))
  ELSE IF ExactTitleHits(m, items) # {} THEN Least(ExactTitleHits(m, items))
  ELSE IF ContainedTitleHits(m, items) # {} THEN Least(ContainedTitleHits(m, items))
  ELSE -1

\* C5: autoSelectByMentions resolves every mention, whatever its shape, by
\* the first rule that succeeds in the order URL match, in-range index,
\* exact title, contained title of 8 characters or more.
C5_RuleOrder ==
  ByMentions =>
    \A k \in 1..Len(ret.mentions) :
      ret.resolved[k] = ResolvesByRuleOrder(ret.mentions[k], headlines)

\* the indices the mentions resolve to
ResolvedSet == {ret.resolved[k] : k \in 1..Len(ret.mentions)} \ {-1}

AllowedSet(allowed, items) ==
  IF allowed.given
    THEN Range(allowed.idxs) \cap 0..(Len(items) - 1)
    ELSE 0..(Len(items) - 1)

\* C6: the indices autoSelectByMentions selects are in range and allowed,
\* an index reached twice is counted once, the count is the number of indices
\* selected, and a mention that resolves to nothing changes nothing.
C6_SelectsOnce ==
  ByMentions =>
    /\ ret.seen \subseteq 0..(Len(headlines) - 1)
    /\ ret.allowed.given => ret.seen \subseteq Range(ret.allowed.idxs)
    /\ ret.seen = ResolvedSet \cap AllowedSet(ret.allowed, headlines)
    /\ ret.result = Cardinality(ret.seen)
    /\ checked = ret.before \cup ret.seen
    /\ ResolvedSet = {} => (checked = ret.before /\ ret.result = 0)

\* two mentions of one headline, selected and counted once
C6_Witness ==
  /\ ByMentions
  /\ Len(ret.mentions) = 2
  /\ ret.resolved[1] >= 0
  /\ ret.resolved[1] = ret.resolved[2]
  /\ ret.mentions[1] # ret.mentions[2]
  /\ ret.seen = {ret.resolved[1]}
  /\ ret.result = 1

UrlsCompared == ret.fn = "urlsEqual"

\* s up to its first "?" or "#"
WithoutQueryAndFragment(s) == SubSeq(s, 1, FirstOf(s, 1, {"?", "#"}) - 1)

WithoutSlash(s) == IF Len(s) > 0 /\ s[Len(s)] = "/" THEN SubSeq(s, 1, Len(s) - 1) ELSE s

\* query string and fragment removed, one trailing slash stripped, lower case
NormalForm(u) == toLowerCase(WithoutSlash(WithoutQueryAndFragment(trim(u))))

\* the statement of C7: a string that does not parse falls back to itself,
\* trimmed and in lower case
C7_FallbackTrimmedLowercased ==
  UrlsCompared =>
    ret.na = (IF UrlParses(ret.a) THEN NormalForm(ret.a) ELSE toLowerCase(trim(ret.a)))

\* the example of C7: the mention, the headline list that holds the link
ExampleResolves ==
  (/\ ByMentions
   /\ Len(ret.mentions) > 0
   /\ ret.mentions[1].url = U_example
   /\ Len(headlines) > 0
   /\ headlines[1].link = U_a)
    => ret.resolved[1] = 0

\* C7: urlsEqual(a, b) holds exactly when the normal forms of a and b are the
\* same: query string and fragment removed, one trailing slash stripped, lower
\* case; a string that does not parse falls back to itself trimmed, one
\* trailing slash stripped, in lower case. URLs that differ only in case,
\* query, fragment or a trailing slash are equal.
C7_UrlsEqual ==
  /\ UrlsCompared =>
       /\ ret.result = (ret.na = ret.nb)
       /\ ret.na = (IF UrlParses(ret.a) THEN NormalForm(ret.a)
                    ELSE toLowerCase(WithoutSlash(trim(ret.a))))
       /\ (ret.a \in UrlBases /\ ret.b \in Variants(ret.a)) => ret.result
  /\ ExampleResolves

\* two URLs that differ in case, query, fragment and trailing slash, found equal
C7_Witness ==
  /\ UrlsCompared
  /\ ret.a = U_a
  /\ ret.b = WithFragment(WithQuery(WithSlash(U_a)))
  /\ ret.result

FromSummary == ret.fn = "autoSelectFromSummary"

\* the words of the normalized summary
SummaryWords(summaryText) == Range(split(normalizeText(summaryText)))

\* the informative tokens of the title that are words of the summary
TokensFound(title, summaryText) ==
  {k \in 1..Len(tokensFromTitle(title)) :
     tokensFromTitle(title)[k] \in SummaryWords(summaryText)}

\* at least 2 informative tokens, at least half of them words of the summary
Qualifies(title, summaryText) ==
  /\ Len(tokensFromTitle(title)) >= 2
  /\ 2 * Cardinality(TokensFound(title, summaryText)) >= Len(tokensFromTitle(title))

Qualifying(summaryText, allowed, items) ==
  {i \in AllowedSet(allowed, items) : Qualifies(items[i + 1].title, summaryText)}

\* C9: autoSelectFromSummary selects exactly the allowed headlines whose title
\* has at least 2 informative tokens of which at least half are whole words of
\* the normalized summary; it deselects nothing and returns how many it selected.
C9_SelectsStrongMatches ==
  FromSummary =>
    /\ checked = ret.before \cup Qualifying(ret.summary, ret.allowed, headlines)
    /\ ret.before \subseteq checked
    /\ ret.result = Cardinality(Qualifying(ret.summary, ret.allowed, headlines))

\* a title matched by exactly half of its tokens is selected, one matched by
\* fewer is not, and the box checked before stays checked
C9_Witness ==
  /\ FromSummary
  /\ ~ ret.allowed.given
  /\ ret.before = {0}
  /\ checked = {0, 1}
  /\ Len(headlines) = 3
  /\ 2 * Cardinality(TokensFound(headlines[2].title, ret.summary))
       = Len(tokensFromTitle(headlines[2].title))
  /\ Cardinality(TokensFound(headlines[3].title, ret.summary)) > 0
  /\ ret.result = 1

\* ------------------------------------------------------------------------
\* SpecVideo: a change of the filter controls re-filters the candidates of
\* the last scan
\* ------------------------------------------------------------------------

InitVideo ==
  /\ videos \in DistinctSeqsUpTo(VideoPool, MaxVideos)
  /\ headlines = <<H1, H2>>
  /\ checked = {0}
  /\ vidControls = DefaultControls
  /\ domainTerms = DT_absent
  /\ feedGroup = G_none
  /\ queryInput = Q_empty
  /\ expandAI = FALSE
  /\ status = "ready"
  /\ sumCall = <<>>
  /\ fetchCall = <<>>
  /\ scanCall = <<>>
  /\ timers = {}
  /\ vidSearchTimer = 0
  /\ ret = NoCall

\* a control is changed and its listener runs updateVideoList:
\* renderVideos(applyVideoFilters(videos))
UpdateVideoList ==
  /\ ret.fn = "none"
  /\ \E c \in ControlsPool :
       /\ vidControls' = c
       /\ ret' = [fn     |-> "applyVideoFilters",
                  passed |-> passFilters(videos, c, getSelectedHeadlineUrls(headlines, checked)),
                  result |-> applyVideoFilters(videos, c, headlines, checked)]
  /\ UNCHANGED <<headlines, domainTerms, videos, checked, feedGroup, queryInput,
                 expandAI, status, sumCall, fetchCall,
                 scanCall, timers, vidSearchTimer>>

NextVideo == UpdateVideoList

SpecVideo == InitVideo /\ [][NextVideo]_vars

\* ------------------------------------------------------------------------
\* Properties of the video candidate filter
\* ------------------------------------------------------------------------

Filtered == ret.fn = "applyVideoFilters"

\* platform = direct = 3 > stream = 2 > embed = 1
RankOfBucket(b) ==
  CASE b \in {"platform", "direct"} -> 3
    [] b = "stream" -> 2
    [] OTHER -> 1

RankOf(v) == RankOfBucket(videoTypeBucket(v))

\* pageUrl, or srcUrl when pageUrl is empty
KeyOf(v) == IF v.pageUrl = <<>> THEN v.srcUrl ELSE v.pageUrl

\* the positions in list of the candidates of group key
Group(list, key) == {i \in 1..Len(list) : KeyOf(list[i]) = key}

\* the first position in the group that has the group's maximum rank
FirstBest(list, key) ==
  CHOOSE i \in Group(list, key) :
    /\ \A j \in Group(list, key) : RankOf(list[j]) <= RankOf(list[i])
    /\ \A j \in Group(list, key) : RankOf(list[j]) = RankOf(list[i]) => i <= j

\* C10: with unique-per-page on, the output holds exactly one candidate per
\* group key of the candidates that passed the filters: the first in the input
\* among those of the group's maximum rank.
C10_BestPerPage ==
  (Filtered /\ vidControls.uniquePerPage) =>
    /\ \A i \in 1..Len(ret.passed) :
         /\ Cardinality(Group(ret.result, KeyOf(ret.passed[i]))) = 1
         /\ \A k \in Group(ret.result, KeyOf(ret.passed[i])) :
              ret.result[k] = ret.passed[FirstBest(ret.passed, KeyOf(ret.passed[i]))]
    /\ \A k \in 1..Len(ret.result) : Group(ret.passed, KeyOf(ret.result[k])) # {}

\* the example: mp4, embed and youtube of one page yield the mp4
C10_Witness ==
  /\ Filtered
  /\ vidControls.uniquePerPage
  /\ ret.passed = <<V_mp4, V_embed, V_youtube>>
  /\ ret.result = <<V_mp4>>

\* ------------------------------------------------------------------------
\* SpecApp: the page with its Fetch Headlines and Summarize handlers, each
\* suspended at its await until the server answers, and the user's clicks
\* on the check boxes in between
\* ------------------------------------------------------------------------

InitApp ==
  /\ headlines = <<>>
  /\ checked = {}
  /\ domainTerms = DT_politics
  /\ feedGroup = G_none
  /\ queryInput \in AppQueryPool
  /\ expandAI \in BOOLEAN
  /\ videos = <<>>
  /\ vidControls = DefaultControls
  /\ status = "Ready"
  /\ sumCall = <<>>
  /\ fetchCall = <<>>
  /\ scanCall = <<>>
  /\ timers = {}
  /\ vidSearchTimer = 0
  /\ ret = NoCall

\* click on Fetch Headlines, up to the await of api('/api/fetch-headlines')
FetchStart ==
  /\ Len(fetchCall) < MaxPending
  /\ fetchCall' = Append(fetchCall, [group |-> feedGroup, wrote |-> FALSE])
  /\ status' = "Fetching headlines..."
  /\ ret' = NoCall
  /\ UNCHANGED <<headlines, domainTerms, videos, checked, feedGroup, queryInput,
                 expandAI, vidControls, sumCall,
                 scanCall, timers, vidSearchTimer>>

\* the fetch answers with a list: headlines = data.items; renderHeadlines(headlines)
FetchDone ==
  \E k \in 1..Len(fetchCall), items \in FetchPool :
    /\ fetchCall' = removeAt(fetchCall, k)
    /\ headlines' = items
    /\ checked' = {}
    /\ status' = "Fetched items."
    /\ ret' = NoCall
    /\ UNCHANGED <<domainTerms, videos, feedGroup, queryInput, expandAI, vidControls,
                   sumCall,
                   scanCall, timers, vidSearchTimer>>

\* the fetch is rejected or answers with a status that is not OK
FetchFail ==
  \E k \in 1..Len(fetchCall) :
    /\ fetchCall' = removeAt(fetchCall, k)
    /\ status' = "Error fetching headlines"
    /\ ret' = NoCall
    /\ UNCHANGED <<headlines, domainTerms, videos, checked, feedGroup, queryInput,
                   expandAI, vidControls, sumCall,
                   scanCall, timers, vidSearchTimer>>

\* the user clicks the check box of headline i
Toggle ==
  \E i \in 0..(Len(headlines) - 1) :
    /\ checked' = IF i \in checked THEN checked \ {i} ELSE checked \cup {i}
    /\ ret' = NoCall
    /\ UNCHANGED <<headlines, domainTerms, videos, feedGroup, queryInput, expandAI,
                   vidControls, status, sumCall, fetchCall,
                   scanCall, timers, vidSearchTimer>>

\* click on Summarize, up to the await of api('/api/summarize'); the call
\* waits with its locals allowedIdxs and toSummarize, and, for the properties,
\* with the list they were computed from, the boxes the handler left checked
\* and whether that changed the selection
SummarizeStart ==
  /\ Len(sumCall) < MaxPending
  /\ \E pre \in {prefilter(expandAI, searchHeadlines(queryInput, headlines, 200),
                           headlines, checked, queryInput)} :
       /\ checked' = pre.checked
       /\ status' = pre.status
       /\ sumCall' = Append(sumCall, [allowedIdxs |-> pre.allowed,
                                      toSummarize |-> pre.toSummarize,
                                      items       |-> headlines,
                                      prefiltered |-> pre.checked,
                                      wrote       |-> pre.checked # checked])
  /\ ret' = NoCall
  /\ UNCHANGED <<headlines, domainTerms, videos, feedGroup, queryInput, expandAI,
                 vidControls, fetchCall,
                 scanCall, timers, vidSearchTimer>>

\* the summarizer answers with out = { summary, mentions }
SummarizeDone ==
  \E k \in 1..Len(sumCall), out \in ResponsePool :
    \E r \in {refineSelection(out, sumCall[k].allowedIdxs, headlines, checked)} :
      /\ sumCall' = removeAt(sumCall, k)
      /\ checked' = r.checked
      /\ status' = IF r.count > 0 THEN "Done. Auto-selected." ELSE "Done."
      /\ ret' = [fn           |-> "btnSummarize done",
                 out          |-> out,
                 call         |-> sumCall[k],
                 seen         |-> r.seen,
                 fromMentions |-> r.fromMentions,
                 ranFallback  |-> r.ranFallback,
                 count        |-> r.count]
      /\ UNCHANGED <<headlines, domainTerms, videos, feedGroup, queryInput, expandAI,
                     vidControls, fetchCall,
                     scanCall, timers, vidSearchTimer>>

\* the summarizer call is rejected or answers with a status that is not OK
SummarizeFail ==
  \E k \in 1..Len(sumCall) :
    /\ sumCall' = removeAt(sumCall, k)
    /\ status' = "Error summarizing"
    /\ ret' = NoCall
    /\ UNCHANGED <<headlines, domainTerms, videos, checked, feedGroup, queryInput,
                   expandAI, vidControls, fetchCall,
                   scanCall, timers, vidSearchTimer>>

NextApp ==
  \/ FetchStart
  \/ FetchDone
  \/ FetchFail
  \/ Toggle
  \/ SummarizeStart
  \/ SummarizeDone
  \/ SummarizeFail

SpecApp == InitApp /\ [][NextApp]_vars

\* ------------------------------------------------------------------------
\* Properties of the summarize flow
\* ------------------------------------------------------------------------

Summarized == ret.fn = "btnSummarize done"

\* the indices the mentions of the response select within the allowed set
ChosenFromMentions ==
  IF ret.out.hasMentions
    THEN autoSelectByMentions(ret.out.mentions, ret.call.allowedIdxs, headlines, {}).seen
    ELSE {}

\* C8: in the summarize flow autoSelectFromSummary runs exactly when the
\* mentions of the response selected nothing, the response without mentions
\* included; when they selected something, the final selection is what they
\* selected.
C8_FallbackIffNoMention ==
  Summarized =>
    /\ ret.ranFallback = (ChosenFromMentions = {})
    /\ ChosenFromMentions # {} => checked = ChosenFromMentions

\* both cases of one flow: a response whose mention selected a headline while
\* its summary matches another one, which stays unselected
C8_Witness ==
  /\ Summarized
  /\ ~ ret.ranFallback
  /\ ret.out.summary # <<>>
  /\ checked = {1}
  /\ StrongMatch(headlines, 0, <<" ">> \o normalizeText(ret.out.summary) \o <<" ">>)

\* a response without a resolvable mention, after which the fallback selected
C8_FallbackWitness ==
  /\ Summarized
  /\ ret.ranFallback
  /\ ret.out.hasMentions
  /\ Len(ret.out.mentions) > 0
  /\ ret.count > 0


\* C11: applyVideoFilters applied to its own output, under the same controls
\* and the same selection, returns that output: same elements, same order.
C11_Idempotent ==
  Filtered =>
    applyVideoFilters(ret.result, vidControls, headlines, checked) = ret.result

\* a pass that dropped a candidate and returned two of one sort key
C11_Witness ==
  /\ Filtered
  /\ vidControls.uniquePerPage
  /\ Len(ret.result) < Len(videos)
  /\ \E i \in 1..Len(ret.result) : \E j \in (i + 1)..Len(ret.result) :
       sortKey(ret.result[i]) = sortKey(ret.result[j])

\* platform = 0, direct = 1, stream = 2, embed = 3
PriorityOfBucket(b) ==
  CASE b = "platform" -> 0
    [] b = "direct" -> 1
    [] b = "stream" -> 2
    [] OTHER -> 3

\* a does not come after b, character by character in collation order
RECURSIVE TitleLeq(_, _)
TitleLeq(a, b) ==
  IF a = <<>> THEN TRUE
  ELSE IF b = <<>> THEN FALSE
  ELSE IF a[1] = b[1] THEN TitleLeq(Tail(a), Tail(b))
  ELSE collationRank(a[1]) < collationRank(b[1])

\* v may stand before w in a list sorted by (bucketPriority, lowercase title)
InOrder(v, w) ==
  \/ PriorityOfBucket(videoTypeBucket(v)) < PriorityOfBucket(videoTypeBucket(w))
  \/ /\ PriorityOfBucket(videoTypeBucket(v)) = PriorityOfBucket(videoTypeBucket(w))
     /\ TitleLeq(toLowerCase(v.title), toLowerCase(w.title))

\* C12: the list applyVideoFilters returns is sorted ascending by
\* (bucketPriority, lowercase title), with platform = 0, direct = 1, stream = 2,
\* embed = 3, under every configuration of the controls.
C12_Sorted ==
  Filtered =>
    \A i \in 1..Len(ret.result) : \A j \in (i + 1)..Len(ret.result) :
      InOrder(ret.result[i], ret.result[j])

\* no filter enabled: two direct files put in title order before an embed
\* that preceded one of them in the input
C12_Witness ==
  /\ Filtered
  /\ vidControls = DefaultControls
  /\ videos = <<V_nopage, V_embed, V_mp4>>
  /\ ret.result = <<V_mp4, V_nopage, V_embed>>

\* youtube/vimeo -> platform, mp4/webm -> direct, m3u8 -> stream, anything
\* else -> embed, whatever the case of the letters
BucketOf(sourceType) ==
  IF toLowerCase(sourceType) \in {<<"y","o","u","t","u","b","e">>, <<"v","i","m","e","o">>}
    THEN "platform"
  ELSE IF toLowerCase(sourceType) \in {<<"m","p","4">>, <<"w","e","b","m">>} THEN "direct"
  ELSE IF toLowerCase(sourceType) = <<"m","3","u","8">> THEN "stream"
  ELSE "embed"

\* the keyword of the search box: its value trimmed, in lower case
Keyword == trim(toLowerCase(vidControls.search))

\* the keyword is a substring, whatever the case, of the title, of a URL or
\* of a hostname of v
KeywordIn(v) ==
  \E text \in {v.title, v.srcUrl, v.pageUrl, hostnameOf(v.srcUrl), hostnameOf(v.pageUrl)} :
    includes(toLowerCase(text), Keyword)

SelectedLinks == {headlines[i].link : i \in {k \in 1..Len(headlines) : (k - 1) \in checked}}

\* v satisfies every enabled stage
SatisfiesStages(v) ==
  /\ vidControls.type # "all" => BucketOf(v.sourceType) = vidControls.type
  /\ vidControls.playableOnly => BucketOf(v.sourceType) \in {"platform", "direct", "stream"}
  /\ Keyword # <<>> => KeywordIn(v)
  /\ vidControls.fromSelectedOnly => v.pageUrl \in SelectedLinks

\* C13: applyVideoFilters returns only candidates of its input, unaltered;
\* every returned candidate satisfies every enabled stage, with the buckets of
\* the fixed mapping; with unique-per-page off every input candidate that
\* satisfies all enabled stages is returned.
C13_OnlyPassing ==
  Filtered =>
    /\ \A i \in 1..Len(ret.result) :
         /\ ret.result[i] \in Range(videos)
         /\ SatisfiesStages(ret.result[i])
         /\ videoTypeBucket(ret.result[i]) = BucketOf(ret.result[i].sourceType)
    /\ ~ vidControls.uniquePerPage =>
         Range(ret.result) = {v \in Range(videos) : SatisfiesStages(v)}

\* every stage enabled: of three candidates only the selected page's direct
\* file with the keyword in its title is returned
C13_Witness ==
  /\ Filtered
  /\ vidControls.type = "direct"
  /\ vidControls.playableOnly
  /\ vidControls.fromSelectedOnly
  /\ ~ vidControls.uniquePerPage
  /\ Keyword = <<"c","l","i","p">>
  /\ Len(videos) = 3
  /\ ret.result = <<V_mp4>>

\* a candidate without a page URL found by the host name its empty URL
\* resolves to
C13_HostWitness ==
  /\ Filtered
  /\ Keyword = <<"l","o","c","a","l">>
  /\ ret.result = <<V_nopage>>


\* ------------------------------------------------------------------------
\* Properties of the expander outside the politics branch
\* ------------------------------------------------------------------------

ExpandCalled == ret.fn = "expandQueryWithDomain"

\* the politics trigger: one of the keywords occurs in the query, whatever
\* the case
PoliticsKeyword(q) ==
  \/ \E w \in {<<"p","o","l","i","t","i","c">>, <<"p","a","r","l","i","a","m","e","n","t">>,
               <<"c","o","n","g","r","e","s","s">>, <<"s","e","n","a","t","e">>,
               <<"e","l","e","c","t","i","o","n">>, <<"g","o","v","e","r","n","m","e","n","t">>,
               <<"w","h","i","t","e","h","a","l","l">>} :
       includes(toLowerCase(q), w)
  \/ reGapTest(<<"d","o","w","n","i","n","g">>, <<"s","t","r","e","e","t">>, toLowerCase(q))

\* domainTerms is absent or the trigger does not match the raw query
NoExpansion == ~ domainTerms.present \/ ~ PoliticsKeyword(queryInput)

FinishedOnOtherList == Summarized /\ ret.call.items # headlines

\* the allowed set computed on the earlier list was used to select on the
\* present one
StaleAllowedApplied ==
  /\ FinishedOnOtherList
  /\ ret.call.allowedIdxs # NoAllowed
  /\ ret.count > 0

\* C15: under every interleaving of the handlers, a fetch that replaces the
\* headline list clears the selection, and no index computed on an earlier
\* list (the allowed set of a Summarize that started before the fetch and
\* finished after it) is applied to the new list.
C15_NoStaleIndex ==
  [][ /\ headlines' # headlines => checked' = {}
      /\ ~ StaleAllowedApplied' ]_vars


\* ------------------------------------------------------------------------
\* Failure of a collaborator call
\* ------------------------------------------------------------------------

\* the headline list, the video candidates, the domain terms and the set of
\* selected headlines
engineState == <<headlines, videos, domainTerms, checked>>

\* the calls of pending whose catch block runs in this step, which leaves
\* after waiting and the page in the handler's error status
FailedFetch ==
  {k \in 1..Len(fetchCall) :
     fetchCall' = removeAt(fetchCall, k) /\ status' = "Error fetching headlines"}

FailedSummarize ==
  {k \in 1..Len(sumCall) :
     sumCall' = removeAt(sumCall, k) /\ status' = "Error summarizing"}

\* C16: when the collaborator call of a handler fails, the headline list, the
\* video candidates, the domain terms and the set of selected headlines are
\* what they were before the handler started: its catch block changes none
\* of them, and the part it ran before the call had changed none of them.
C16_FailureKeepsState ==
  [][ /\ \A k \in FailedFetch : engineState' = engineState /\ ~ fetchCall[k].wrote
      /\ \A k \in FailedSummarize : engineState' = engineState /\ ~ sumCall[k].wrote ]_vars

\* what does hold: the catch block itself changes none of the four
C16_CatchKeepsState ==
  [][ (FailedFetch # {} \/ FailedSummarize # {}) => engineState' = engineState ]_vars

\* ------------------------------------------------------------------------
\* The selection across the fallback
\* ------------------------------------------------------------------------

\* the step in which a Summarize handler resumes and its fallback runs
FallbackStep == Summarized' /\ sumCall' # sumCall /\ ret'.ranFallback

\* C20: when the mentions selected nothing and autoSelectFromSummary runs,
\* every box that was checked when the summarizer answered, the pre-filtered
\* selection included, is checked when the handler finishes, and the boxes
\* the handler checked are within the allowed set; whether the mentions are
\* missing, empty or all unresolvable.
C20_FallbackKeepsSelection ==
  [][ FallbackStep =>
        /\ checked \subseteq checked'
        /\ ret'.call.allowedIdxs.given =>
             (checked' \ checked) \subseteq Range(ret'.call.allowedIdxs.idxs) ]_vars

\* what does hold: the same for a response whose mentions are missing or empty
C20_KeptWithoutMentions ==
  [][ (FallbackStep /\ ~ (ret'.out.hasMentions /\ Len(ret'.out.mentions) > 0)) =>
        /\ checked \subseteq checked'
        /\ ret'.call.allowedIdxs.given =>
             (checked' \ checked) \subseteq Range(ret'.call.allowedIdxs.idxs) ]_vars

\* ------------------------------------------------------------------------
\* SpecDebounce: the video panel. Scan Videos fills the candidate list; a
\* change of a filter control re-filters at once; an input event of the
\* search box re-filters through a timeout of 200 ms. The browser holds the
\* timeouts set and not yet run, each with the time left until it is due;
\* time passes in ticks of 100 ms
\* ------------------------------------------------------------------------

\* the 200 of setTimeout(updateVideoList, 200), in ticks
DebounceDelay == 2

\* the ids the browser hands out; an id is handed out again only once no
\* timeout and no variable holds it
MaxTimers == 3

clearTimeoutKeepsAll(pending, id) == pending

\* clearTimeout(id): the timeout of that id, if it is still held, will not run
clearTimeout(pending, id) == {t \in pending : t.id # id}

\* the ids setTimeout may return
freshTimerIds(pending, last) == (1..MaxTimers) \ ({t.id : t \in pending} \cup {last})

\* setTimeout(callback, delay) with the id it returns
setTimeout(pending, id, delay) == pending \cup {[id |-> id, left |-> delay]}

InitDebounce ==
  /\ headlines \in {<<>>, <<H1, H2>>}
  /\ checked = {}
  /\ videos = <<>>
  /\ vidControls = DefaultControls
  /\ domainTerms = DT_absent
  /\ feedGroup = G_none
  /\ queryInput = Q_empty
  /\ expandAI = FALSE
  /\ status = "Ready"
  /\ sumCall = <<>>
  /\ fetchCall = <<>>
  /\ scanCall = <<>>
  /\ timers = {}
  /\ vidSearchTimer = 0
  /\ ret = NoCall

\* the urls Scan Videos sends: the links of the selected headlines, or of
\* all of them when none is selected, the empty ones left out
scanUrls(items, boxes) ==
  IF getSelectedHeadlineUrls(items, boxes) # {}
    THEN getSelectedHeadlineUrls(items, boxes)
    ELSE {items[i].link : i \in 1..Len(items)} \ {<<>>}

\* click on Scan Videos with nothing to scan: the handler returns at once
ScanNothing ==
  /\ scanUrls(headlines, checked) = {}
  /\ status' = "No headlines to scan."
  /\ ret' = NoCall
  /\ UNCHANGED <<headlines, domainTerms, videos, checked, feedGroup, queryInput,
                 expandAI, vidControls, sumCall, fetchCall,
                 scanCall, timers, vidSearchTimer>>

\* click on Scan Videos, up to the await of api('/api/find-videos')
ScanStart ==
  /\ Len(scanCall) < MaxPending
  /\ scanUrls(headlines, checked) # {}
  /\ scanCall' = Append(scanCall, [urls  |-> scanUrls(headlines, checked),
                                   wrote |-> FALSE])
  /\ status' = "Scanning for videos..."
  /\ ret' = NoCall
  /\ UNCHANGED <<headlines, domainTerms, videos, checked, feedGroup, queryInput,
                 expandAI, vidControls, sumCall, fetchCall, timers, vidSearchTimer>>

\* the scan answers: videos = out.videos, or [] when that is not an array;
\* renderVideos(applyVideoFilters(videos))
ScanDone ==
  \E k \in 1..Len(scanCall), found \in ScanPool :
    /\ scanCall' = removeAt(scanCall, k)
    /\ videos' = found
    /\ status' = "Found video source(s)."
    /\ ret' = [fn     |-> "renderVideos",
               result |-> applyVideoFilters(found, vidControls, headlines, checked)]
    /\ UNCHANGED <<headlines, domainTerms, checked, feedGroup, queryInput, expandAI,
                   vidControls, sumCall, fetchCall, timers, vidSearchTimer>>

\* the scan is rejected or answers with a status that is not OK
ScanFail ==
  \E k \in 1..Len(scanCall) :
    /\ scanCall' = removeAt(scanCall, k)
    /\ status' = "Error scanning videos"
    /\ ret' = [fn |-> "btnScanVideos catch", call |-> scanCall[k]]
    /\ UNCHANGED <<headlines, domainTerms, videos, checked, feedGroup, queryInput,
                   expandAI, vidControls, sumCall, fetchCall, timers, vidSearchTimer>>

\* the change listener of #vidPlayableOnly, #vidUniquePerPage,
\* #vidFromSelectedOnly and #vidType, which is the same for the four:
\* updateVideoList at once. The box clicked here is #vidPlayableOnly
ControlChange ==
  \E c \in {[vidControls EXCEPT !.playableOnly = ~ vidControls.playableOnly]} :
    /\ vidControls' = c
    /\ ret' = [fn     |-> "updateVideoList",
               by     |-> "change",
               result |-> applyVideoFilters(videos, c, headlines, checked)]
    /\ UNCHANGED <<headlines, domainTerms, videos, checked, feedGroup, queryInput,
                   expandAI, status, sumCall, fetchCall, scanCall, timers,
                   vidSearchTimer>>

\* the input listener of #vidSearch: the box holds the new text;
\* clearTimeout(_vidSearchTimer); _vidSearchTimer = setTimeout(updateVideoList, 200)
VidSearchInput ==
  \E text \in SearchTextPool, id \in freshTimerIds(timers, vidSearchTimer) :
    /\ \A other \in freshTimerIds(timers, vidSearchTimer) : id <= other
    /\ vidControls' = [vidControls EXCEPT !.search = text]
    /\ timers' = setTimeout(clearTimeout(timers, vidSearchTimer), id, DebounceDelay)
    /\ vidSearchTimer' = id
    /\ ret' = [fn        |-> "vidSearch input",
               cancelled |-> clearTimeout(timers, vidSearchTimer) # timers]
    /\ UNCHANGED <<headlines, domainTerms, videos, checked, feedGroup, queryInput,
                   expandAI, status, sumCall, fetchCall, scanCall>>

\* 100 ms pass
Tick ==
  /\ \E t \in timers : t.left > 0
  /\ timers' = {[t EXCEPT !.left = IF t.left > 0 THEN t.left - 1 ELSE 0] : t \in timers}
  /\ UNCHANGED <<headlines, domainTerms, videos, checked, feedGroup, queryInput,
                 expandAI, vidControls, status, sumCall, fetchCall, scanCall,
                 vidSearchTimer, ret>>

\* the browser runs a timeout that is due: updateVideoList reads the
\* controls as they are now
TimerFire ==
  \E t \in timers :
    /\ t.left = 0
    /\ timers' = timers \ {t}
    /\ ret' = [fn     |-> "updateVideoList",
               by     |-> "timer",
               timer  |-> t.id,
               burst  |-> ret.fn = "vidSearch input" /\ ret.cancelled,
               result |-> applyVideoFilters(videos, vidControls, headlines, checked)]
    /\ UNCHANGED <<headlines, domainTerms, videos, checked, feedGroup, queryInput,
                   expandAI, vidControls, status, sumCall, fetchCall, scanCall,
                   vidSearchTimer>>

NextDebounce ==
  \/ ScanNothing
  \/ ScanStart
  \/ ScanDone
  \/ ScanFail
  \/ ControlChange
  \/ VidSearchInput
  \/ Tick
  \/ TimerFire

SpecDebounce == InitDebounce /\ [][NextDebounce]_vars

\* the steps of TimerFire, told by what they do to the timeouts held
TimerRuns ==
  \E t \in timers :
    /\ t.left = 0
    /\ timers' = timers \ {t}

\* the browser runs a timeout that is due, and time passes; nothing makes
\* the user stop typing
SpecDebounceFair ==
  /\ SpecDebounce
  /\ WF_timers(TimerRuns)
  /\ WF_vars(Tick)

\* ------------------------------------------------------------------------
\* Properties of the debounced search box
\* ------------------------------------------------------------------------

\* a timeout has run updateVideoList and no input event has come since
TimerPass == ret.fn = "updateVideoList" /\ ret.by = "timer"

\* at most one timeout of the search box is held at any time
OneTimerPending == Cardinality(timers) <= 1

\* an input event, which alone assigns _vidSearchTimer, leaves exactly one
\* timeout held: a new one, with the whole delay to run
InputRearms ==
  vidSearchTimer' # vidSearchTimer =>
    /\ timers' = {[id |-> vidSearchTimer', left |-> DebounceDelay]}
    /\ \A t \in timers : t.id # vidSearchTimer'

\* a pass run by a timeout: the timeout is the one the latest input event
\* set, the delay has run out since, the pass filters with the text the box
\* holds now, and no timeout is left to run a second pass
PassAfterBurst ==
  (timers' # timers /\ vidSearchTimer' = vidSearchTimer /\ ret' # ret) =>
    /\ timers = {[id |-> vidSearchTimer, left |-> 0]}
    /\ timers' = {}
    /\ ret'.fn = "updateVideoList"
    /\ ret'.timer = vidSearchTimer
    /\ ret'.result = applyVideoFilters(videos, vidControls, headlines, checked)
    /\ vidControls' = vidControls

DebounceSafety ==
  /\ []OneTimerPending
  /\ [][InputRearms]_vars
  /\ [][PassAfterBurst]_vars

\* C17 as stated: one timeout at most is held; each input event cancels the
\* held one and sets a new one; a burst of input events causes one pass,
\* after its last event and with the latest text; and every input event is
\* eventually followed by a pass.
C17_Debounced ==
  /\ DebounceSafety
  /\ (timers # {} ~> TimerPass)

\* C17: the same, except that an input event is eventually followed by a
\* pass only if the input events do not keep coming for ever.
C17_DebouncedUnlessTyping ==
  /\ DebounceSafety
  /\ ([]<><<VidSearchInput>>_vars \/ (timers # {} ~> TimerPass))

\* a pass that followed a burst: the latest input event had cancelled the
\* timeout of an earlier one, and the pass filtered with the text typed last
C17_Witness ==
  /\ TimerPass
  /\ ret.burst
  /\ videos = <<V_mp4, V_embed>>
  /\ vidControls.search = <<"L","o","c","a","l">>
  /\ ret.result = <<>>
  /\ timers = {}

\* ------------------------------------------------------------------------
\* SpecStem: simpleStem applied to a word, tokensContainStem applied to a
\* token list and a query token
\* ------------------------------------------------------------------------

\* elections Elections election elect kings ring nationally national nation Parties
\* party voting as, and the empty word
WordPool ==
  {<<"e","l","e","c","t","i","o","n","s">>,
   <<"E","l","e","c","t","i","o","n","s">>,
   <<"e","l","e","c","t","i","o","n">>,
   <<"e","l","e","c","t">>,
   <<"k","i","n","g","s">>,
   <<"r","i","n","g">>,
   <<"n","a","t","i","o","n","a","l","l","y">>,
   <<"n","a","t","i","o","n","a","l">>,
   <<"n","a","t","i","o","n">>,
   <<"P","a","r","t","i","e","s">>,
   <<"p","a","r","t","y">>,
   <<"v","o","t","i","n","g">>,
   <<"a","s">>,
   <<>>}

\* the longest token list a check draws
MaxTokens == 2

InitStem ==
  /\ headlines = <<>>
  /\ checked = {}
  /\ videos = <<>>
  /\ vidControls = DefaultControls
  /\ domainTerms = DT_absent
  /\ feedGroup = G_none
  /\ queryInput = Q_empty
  /\ expandAI = FALSE
  /\ status = "Ready"
  /\ sumCall = <<>>
  /\ fetchCall = <<>>
  /\ scanCall = <<>>
  /\ timers = {}
  /\ vidSearchTimer = 0
  /\ ret = NoCall

CallSimpleStem ==
  /\ ret.fn = "none"
  /\ \E w \in WordPool :
       ret' = [fn |-> "simpleStem", w |-> w, result |-> simpleStem(w)]
  /\ UNCHANGED <<headlines, domainTerms, videos, checked, feedGroup, queryInput,
                 expandAI, vidControls, status, sumCall, fetchCall, scanCall,
                 timers, vidSearchTimer>>

CallTokensContainStem ==
  /\ ret.fn = "none"
  /\ \E tokens \in SeqsUpTo(WordPool, MaxTokens), queryToken \in WordPool :
       ret' = [fn         |-> "tokensContainStem",
               tokens     |-> tokens,
               queryToken |-> queryToken,
               result     |-> tokensContainStem(tokens, queryToken)]
  /\ UNCHANGED <<headlines, domainTerms, videos, checked, feedGroup, queryInput,
                 expandAI, vidControls, status, sumCall, fetchCall, scanCall,
                 timers, vidSearchTimer>>

NextStem ==
  \/ CallSimpleStem
  \/ CallTokensContainStem

SpecStem == InitStem /\ [][NextStem]_vars

\* ------------------------------------------------------------------------
\* Properties of the stemmer
\* ------------------------------------------------------------------------

Stemmed == ret.fn = "simpleStem"

\* s ends with suf
HasSuffix(s, suf) ==
  /\ Len(suf) <= Len(s)
  /\ SubSeq(s, Len(s) - Len(suf) + 1, Len(s)) = suf

\* the rules of the table whose suffix s ends with and that leave at least
\* three characters in front of it
Applicable(s) ==
  {i \in 1..Len(StemRules) :
     HasSuffix(s, StemRules[i][1]) /\ Len(s) - Len(StemRules[i][1]) >= 3}

FirstApplicable(s) == CHOOSE i \in Applicable(s) : \A j \in Applicable(s) : i <= j

\* the rewrite of rule i: its suffix is taken off s and its replacement put on
Rewrite(s, i) == SubSeq(s, 1, Len(s) - Len(StemRules[i][1])) \o StemRules[i][2]

\* C18: simpleStem lowercases the word and applies the first rule of the
\* table whose suffix the word ends with and that keeps a stem of three
\* characters or more, once; without such a rule the lowercased word is the
\* result; a result made by a rule has three characters or more.
C18_FirstRuleOnce ==
  Stemmed =>
    IF Applicable(toLowerCase(ret.w)) = {}
      THEN ret.result = toLowerCase(ret.w)
      ELSE /\ ret.result = Rewrite(toLowerCase(ret.w), FirstApplicable(toLowerCase(ret.w)))
           /\ Len(ret.result) >= 3

\* kings ends with ings, which would leave one character, so that rule is
\* passed over and the last rule of the table rewrites the word to king
C18_Witness ==
  /\ Stemmed
  /\ ret.w = <<"k","i","n","g","s">>
  /\ ret.result = <<"k","i","n","g">>
  /\ \E i \in 1..(FirstApplicable(ret.w) - 1) : HasSuffix(ret.w, StemRules[i][1])

\* nationally becomes national, to which the rule for tional is not applied
C18_OnceWitness ==
  /\ Stemmed
  /\ ret.w = <<"n","a","t","i","o","n","a","l","l","y">>
  /\ ret.result = <<"n","a","t","i","o","n","a","l">>
  /\ Applicable(ret.result) # {}

\* an uppercase word, lowercased and rewritten: Parties becomes party
C18_LowerWitness ==
  /\ Stemmed
  /\ ret.w = <<"P","a","r","t","i","e","s">>
  /\ ret.result = <<"p","a","r","t","y">>

Contained == ret.fn = "tokensContainStem"

\* p is a prefix of s
IsPrefix(p, s) == Len(p) <= Len(s) /\ SubSeq(s, 1, Len(p)) = p

\* the stems a and b are close enough: equal, or b a prefix of a at most
\* three shorter, or a a prefix of b at most two shorter
CloseStems(a, b) ==
  \/ a = b
  \/ IsPrefix(b, a) /\ Len(a) - Len(b) <= 3
  \/ IsPrefix(a, b) /\ Len(b) - Len(a) <= 2

\* C19: tokensContainStem(tokens, q) is true exactly when some token t has
\* stem(t) = stem(q), or stem(q) a prefix of stem(t) at most three shorter,
\* or stem(t) a prefix of stem(q) at most two shorter; it is false for the
\* empty list and true for ["elections"] and "election".
C19_ContainsIff ==
  Contained =>
    /\ ret.result =
         (\E k \in 1..Len(ret.tokens) :
            CloseStems(simpleStem(ret.tokens[k]), simpleStem(ret.queryToken)))
    /\ ret.tokens = <<>> => ~ ret.result
    /\ (ret.tokens = <<<<"e","l","e","c","t","i","o","n","s">>>> /\ ret.queryToken = <<"e","l","e","c","t","i","o","n">>) => ret.result

\* the example, by equal stems
C19_Witness ==
  /\ Contained
  /\ ret.tokens = <<<<"e","l","e","c","t","i","o","n","s">>>>
  /\ ret.queryToken = <<"e","l","e","c","t","i","o","n">>
  /\ ret.result

\* by a prefix: the stem national of nationally against the stem nation
C19_PrefixWitness ==
  /\ Contained
  /\ ret.tokens = <<<<"n","a","t","i","o","n","a","l","l","y">>>>
  /\ ret.queryToken = <<"n","a","t","i","o","n">>
  /\ ret.result
  /\ simpleStem(ret.tokens[1]) # simpleStem(ret.queryToken)

\* the empty list
C19_EmptyWitness ==
  /\ Contained
  /\ ret.tokens = <<>>
  /\ ~ ret.result

\* ------------------------------------------------------------------------
\* The least score of a hit
\* ------------------------------------------------------------------------

C21_PhraseWitness ==
  /\ Searched
  /\ \E i \in 1..Len(headlines) :
       /\ ret.detail.gated[i] = 4
       /\ ret.detail.raw[i].phraseHit
       /\ ret.detail.raw[i].titleTokenHits = 0
=============================================================================
